---------------------------- MODULE Spec2Model ----------------------------
(***************************************************************************)
(* l2dbus: match registration and dispatch (l2dbus_match.c) and the object *)
(* reference list (l2dbus_reflist.c), both resting on the Lua registry,    *)
(* and the Int64 type (l2dbus_int64.c).                                    *)
(***************************************************************************)
EXTENDS Integers, Sequences, FiniteSets, TLC

(***************************************************************************)
(* Bounds of the model                                                     *)
(***************************************************************************)
\* number of l2dbus_Match shells the allocator can hand out
MaxMatch == 2
\* number of list nodes the allocator can hand out to a reference list
MaxItems == 3
\* width in bits of the modelled int64_t
IntBits == 4
\* number of characters of the longest string given to Int64.new
MaxStrLen == 3

(***************************************************************************)
(* Program constants                                                       *)
(***************************************************************************)
LUA_NOREF == -2
LUA_REFNIL == -1
DBUS_MESSAGE_TYPE_METHOD_CALL == 1
DBUS_MESSAGE_TYPE_METHOD_RETURN == 2
DBUS_MESSAGE_TYPE_ERROR == 3
DBUS_MESSAGE_TYPE_SIGNAL == 4
DBUS_MAXIMUM_MATCH_RULE_ARG_NUMBER == 63
\* a NULL pointer / CDBUS_INVALID_HANDLE
NULL == 0

(***************************************************************************)
(* Lua values.  Every value is a record of the same shape so that values   *)
(* of different Lua types can be compared.                                 *)
(***************************************************************************)
LNil == [t |-> "nil", n |-> 0, s |-> "", b |-> FALSE]
LNum(x) == [t |-> "num", n |-> x, s |-> "", b |-> FALSE]
LStr(x) == [t |-> "str", n |-> 0, s |-> x, b |-> FALSE]
LBool(x) == [t |-> "bool", n |-> 0, s |-> "", b |-> x]
\* a Lua function value (a handler), identified by name
LFunc(x) == [t |-> "func", n |-> 0, s |-> x, b |-> FALSE]
\* a full userdata, identified by the address of its block
LUdata(x) == [t |-> "udata", n |-> x, s |-> "", b |-> FALSE]

\* a Lua number that is no integer: k + 1/2
LFrac(k) == [t |-> "num", n |-> k, s |-> "frac", b |-> FALSE]

Digits == <<"0", "1", "2", "3", "4", "5", "6", "7", "8", "9">>
\* the decimal form of an integer of at most two digits
NumToStr(n) ==
    IF n < 0 THEN "-" \o Digits[(-n) + 1]
    ELSE IF n < 10 THEN Digits[n + 1]
    ELSE Digits[(n \div 10) + 1] \o Digits[(n % 10) + 1]
\* the integers whose decimal form the model's strings can spell
NumRange == (-9) .. 99
\* the decimal form of k + 1/2
FracToStr(k) ==
    IF k >= 0 THEN NumToStr(k) \o ".5" ELSE "-" \o NumToStr((-k) - 1) \o ".5"
\* lua_isstring: a string or a number (numbers convert to strings)
lua_isstring(v) == v.t \in {"str", "num"}
\* lua_tostring for a value lua_isstring accepts
lua_tostring(v) ==
    IF v.t # "num" THEN v.s
    ELSE IF v.s = "frac" THEN FracToStr(v.n) ELSE NumToStr(v.n)
\* lua_isnumber: a number, or a string convertible to a number
lua_isnumber(v) ==
    \/ v.t = "num"
    \/ v.t = "str" /\ \E k \in NumRange : NumToStr(k) = v.s \/ FracToStr(k) = v.s
\* the fraction of a number is cut off, towards zero
CutFraction(k, frac) == IF frac /\ k < 0 THEN k + 1 ELSE k
\* lua_tointeger: the number, or the number a string spells, cast to an
\* integer, else 0
lua_tointeger(v) ==
    IF v.t = "num" THEN CutFraction(v.n, v.s = "frac")
    ELSE IF v.t # "str" THEN 0
    ELSE IF \E k \in NumRange : NumToStr(k) = v.s
    THEN CHOOSE k \in NumRange : NumToStr(k) = v.s
    ELSE IF \E k \in NumRange : FracToStr(k) = v.s
    THEN CutFraction(CHOOSE k \in NumRange : FracToStr(k) = v.s, TRUE)
    ELSE 0
lua_isboolean(v) == v.t = "bool"
lua_toboolean(v) == IF v.t = "nil" THEN FALSE ELSE IF v.t = "bool" THEN v.b ELSE TRUE
lua_isuserdata(v) == v.t = "udata"
\* lua_touserdata: the block address of a userdata, NULL for anything else
lua_touserdata(v) == IF v.t = "udata" THEN v.n ELSE NULL

(***************************************************************************)
(* The match rule (cdbus_MatchRule) and its construction from the Lua      *)
(* criteria table, l2dbus_newMatch lines 338-565.                          *)
(* A char* is the empty sequence when NULL and <<s>> when it points to s.  *)
(***************************************************************************)
\* l2dbus_strDup: a fresh copy of the string, NULL when the allocation fails
l2dbus_strDup(s, ok) == IF ok THEN <<s>> ELSE <<>>

\* memset(&rule, 0, sizeof(rule))
ZeroRule ==
    [msgType |-> "ANY", member |-> <<>>, objInterface |-> <<>>, sender |-> <<>>,
     path |-> <<>>, treatPathAsNamespace |-> FALSE, arg0Namespace |-> <<>>,
     eavesdrop |-> FALSE, filterArgs |-> <<>>]

\* one element of the calloc'ed cdbus_FilterArgItem array
ZeroFilterArg == [argType |-> "INVALID", argN |-> 0, value |-> <<>>]

\* a switch whose cases for error and signal are exchanged
MsgTypeOf_Swapped(v) ==
    IF ~lua_isnumber(v) THEN "ANY"
    ELSE LET k == lua_tointeger(v) IN
         IF k = DBUS_MESSAGE_TYPE_METHOD_CALL THEN "METHOD_CALL"
         ELSE IF k = DBUS_MESSAGE_TYPE_METHOD_RETURN THEN "METHOD_RETURN"
         ELSE IF k = DBUS_MESSAGE_TYPE_ERROR THEN "SIGNAL"
         ELSE IF k = DBUS_MESSAGE_TYPE_SIGNAL THEN "ERROR"
         ELSE "ANY"

\* lines 340-371: the msgType field
MsgTypeOf(v) ==
    IF ~lua_isnumber(v) THEN "ANY"
    ELSE LET k == lua_tointeger(v) IN
         IF k = DBUS_MESSAGE_TYPE_METHOD_CALL THEN "METHOD_CALL"
         ELSE IF k = DBUS_MESSAGE_TYPE_METHOD_RETURN THEN "METHOD_RETURN"
         ELSE IF k = DBUS_MESSAGE_TYPE_ERROR THEN "ERROR"
         ELSE IF k = DBUS_MESSAGE_TYPE_SIGNAL THEN "SIGNAL"
         ELSE "ANY"

\* lines 373-382 (and the like): a string field, copied or left NULL
StrField(v, ok) == IF lua_isstring(v) THEN l2dbus_strDup(lua_tostring(v), ok) ELSE <<>>

\* a boolean field read as a truth value whatever its type
BoolField_Truthy(v) == lua_toboolean(v)

\* lines 417-426 (and 439-448): a boolean field
BoolField(v) == IF lua_isboolean(v) THEN lua_toboolean(v) ELSE FALSE

\* lines 490-510: the type tag of one argN filter
ArgTypeOf(v) ==
    IF lua_isstring(v)
    THEN IF lua_tostring(v) = "string" THEN "ARG"
         ELSE IF lua_tostring(v) = "path" THEN "PATH"
         ELSE "INVALID"
    ELSE IF v.t = "nil" THEN "ARG"
    ELSE "INVALID"

\* a pass that does not check the range of the index
FilterPass_NoRangeCheck(item, el, oom) ==
    IF item.t # "table"
    THEN [brk |-> TRUE, reason |-> "argN table expected", el |-> el]
    ELSE LET argType == ArgTypeOf(item.type) IN
    IF argType \notin {"ARG", "PATH"}
    THEN [brk |-> TRUE,
          reason |-> "unknown argument type specified (!= 'path' or 'string')",
          el |-> el]
    ELSE LET el1 == [el EXCEPT !.argType = argType] IN
    IF ~lua_isnumber(item.index)
    THEN [brk |-> TRUE, reason |-> "arg filter index not specified", el |-> el1]
    ELSE LET el2 == [el1 EXCEPT !.argN = lua_tointeger(item.index)] IN
    IF ~lua_isstring(item.value)
    THEN [brk |-> TRUE, reason |-> "arg filter missing a value", el |-> el2]
    ELSE [brk |-> FALSE, reason |-> "",
          el |-> [el2 EXCEPT !.value =
                     l2dbus_strDup(lua_tostring(item.value), "value" \notin oom)]]

\* lines 480-552: one pass of the loop over the argN filters; el is the
\* array element as the pass leaves it, brk whether the pass left by break
FilterPass(item, el, oom) ==
    IF item.t # "table"
    THEN [brk |-> TRUE, reason |-> "argN table expected", el |-> el]
    ELSE LET argType == ArgTypeOf(item.type) IN
    IF argType \notin {"ARG", "PATH"}
    THEN [brk |-> TRUE,
          reason |-> "unknown argument type specified (!= 'path' or 'string')",
          el |-> el]
    ELSE LET el1 == [el EXCEPT !.argType = argType] IN
    IF ~lua_isnumber(item.index)
    THEN [brk |-> TRUE, reason |-> "arg filter index not specified", el |-> el1]
    ELSE LET el2 == [el1 EXCEPT !.argN = lua_tointeger(item.index)] IN
    IF (0 > el2.argN) \/ (DBUS_MAXIMUM_MATCH_RULE_ARG_NUMBER < el2.argN)
    THEN [brk |-> TRUE, reason |-> "arg filter index out of range", el |-> el2]
    ELSE IF ~lua_isstring(item.value)
    THEN [brk |-> TRUE, reason |-> "arg filter missing a value", el |-> el2]
    ELSE [brk |-> FALSE, reason |-> "",
          el |-> [el2 EXCEPT !.value =
                     l2dbus_strDup(lua_tostring(item.value), "value" \notin oom)]]

\* lines 478-553: the loop; idx counts from 0 as in the code
RECURSIVE FilterLoop(_, _, _, _, _)
FilterLoop(items, nFilterArgs, idx, arr, oom) ==
    IF idx >= nFilterArgs
    THEN [failed |-> FALSE, reason |-> "", arr |-> arr, idx |-> idx]
    ELSE LET r == FilterPass(items[idx + 1], arr[idx + 1], oom)
             arr1 == [arr EXCEPT ![idx + 1] = r.el]
         IN  IF r.brk
             THEN [failed |-> TRUE, reason |-> r.reason, arr |-> arr1, idx |-> idx]
             ELSE FilterLoop(items, nFilterArgs, idx + 1, arr1, oom)

\* the filterArgs field read to its end, however long the array
FilterArgsOf_NoLimit(v, oom) ==
    IF v.t # "table" \/ Len(v.items) = 0
    THEN [failed |-> FALSE, reason |-> "", arr |-> <<>>]
    ELSE LET len == Len(v.items)
             nFilterArgs == len
         IN  IF "filterArgs" \in oom
             THEN [failed |-> TRUE,
                   reason |-> "failed to allocate memory for argN filter elements",
                   arr |-> <<>>]
             ELSE LET r == FilterLoop(v.items, nFilterArgs, 0,
                                      [i \in 1 .. (nFilterArgs + 1) |-> ZeroFilterArg], oom)
                  IN  [failed |-> r.failed, reason |-> r.reason,
                       arr |-> [r.arr EXCEPT ![r.idx + 1].argType = "INVALID"]]

\* lines 450-565: the filterArgs field
FilterArgsOf(v, oom) ==
    IF v.t # "table" \/ Len(v.items) = 0
    THEN [failed |-> FALSE, reason |-> "", arr |-> <<>>]
    ELSE LET len == Len(v.items)
             nFilterArgs == IF len > DBUS_MAXIMUM_MATCH_RULE_ARG_NUMBER + 1
                            THEN DBUS_MAXIMUM_MATCH_RULE_ARG_NUMBER + 1
                            ELSE len
         IN  IF "filterArgs" \in oom
             THEN [failed |-> TRUE,
                   reason |-> "failed to allocate memory for argN filter elements",
                   arr |-> <<>>]
             ELSE LET r == FilterLoop(v.items, nFilterArgs, 0,
                                      [i \in 1 .. (nFilterArgs + 1) |-> ZeroFilterArg], oom)
                  IN  [failed |-> r.failed, reason |-> r.reason,
                       arr |-> [r.arr EXCEPT ![r.idx + 1].argType = "INVALID"]]

\* lines 338-565: the rule parsed from the criteria table c; oom names the
\* allocations that fail
ParseRule(c, oom) ==
    LET fa == FilterArgsOf(c.filterArgs, oom) IN
    [failed |-> fa.failed,
     reason |-> fa.reason,
     rule |-> [msgType |-> MsgTypeOf(c.msgType),
               member |-> StrField(c.member, "member" \notin oom),
               objInterface |-> StrField(c.interface, "interface" \notin oom),
               sender |-> StrField(c.sender, "sender" \notin oom),
               path |-> StrField(c.path, "path" \notin oom),
               treatPathAsNamespace |-> BoolField(c.treatPathAsNamespace),
               arg0Namespace |-> StrField(c.arg0Namespace, "arg0Namespace" \notin oom),
               eavesdrop |-> BoolField(c.eavesdrop),
               filterArgs |-> fa.arr]]

(***************************************************************************)
(* State                                                                   *)
(***************************************************************************)
VARIABLES
    registry,   \* the Lua registry: reference -> value, for the references in use
    freeRefs,   \* the registry's list of released references, last released first
    shells,     \* the l2dbus_Match blocks, by address
    native,     \* the registrations the native bus client holds
    pc,         \* the operation in progress and the line it has reached
    cbStack,    \* the stack of the callback thread
    disp,       \* what the last run of the dispatch loop called
    ret,        \* what the last finished call returned to its caller
    errSeen,    \* some handler has raised an error before
    loopAlive,  \* the native client's dispatch loop has not been unwound
    nodes,      \* the l2dbus_RefItem blocks of the reference list, by address
    head,       \* refList->list.lh_first
    iter,       \* an l2dbus_RefListIter: cur and next
    lstack,     \* the stack of the Lua state the reference list is used with
    ares,       \* what the last reference list call did and returned
    errno,      \* the C library's errno: "0", "EINVAL" or "ERANGE"
    i64         \* what the last Int64 call was given and what it did

arenaVars == <<nodes, head, iter, lstack, ares>>
vars == <<registry, freeRefs, errno, i64, shells, native, pc, cbStack, disp, ret, errSeen, loopAlive,
          nodes, head, iter, lstack, ares, errno, i64>>

MatchIds == 1 .. MaxMatch
NodeIds == 1 .. MaxItems

\* an l2dbus_RefItem block never allocated.  mem: "none", "alloc" or "freed";
\* next is link.le_next; prev is the block whose le_next link.le_prev points
\* to, NULL for the list head
NoNode == [mem |-> "none", refIdx |-> 0, next |-> NULL, prev |-> NULL]

\* the arguments of a reference list call: the value and whether l2dbus_malloc
\* succeeds (l2dbus_refListRef), the reference (l2dbus_refListUnref), the
\* userdata pointer (l2dbus_refListFindItem)
NoArg == [v |-> LNil, ok |-> TRUE, ref |-> LUA_NOREF, item |-> NULL]

\* what an Int64 call did: the call, its arguments (nil when absent), errno
\* when it began, the message of the error it raised ("" when it returned),
\* and the value of the Int64 it returned
NoI64 == [op |-> "", a |-> [t |-> "nil", n |-> 0, chars |-> <<>>],
          b |-> [t |-> "nil", n |-> 0, chars |-> <<>>], errnoIn |-> "0",
          raised |-> "", value |-> 0]

\* what a reference list call did: the call, its arguments, its result, the
\* finalizer calls and releases it made in order, and the entries of the
\* list, the iterator and the Lua stack when it began
NoAres == [op |-> "", arg |-> NoArg, result |-> 0, log |-> <<>>, before |-> <<>>,
           iter |-> [cur |-> NULL, next |-> NULL], stack |-> <<>>]

(***************************************************************************)
(* The Lua registry: luaL_ref, luaL_unref, lua_rawgeti                     *)
(***************************************************************************)
\* luaL_ref on registry state rs = [reg, free]: nil takes no slot; else the
\* last released slot is reused, else the slot after the highest one
luaL_ref(rs, v) ==
    IF v.t = "nil" THEN [ref |-> LUA_REFNIL, reg |-> rs.reg, free |-> rs.free]
    ELSE LET ref == IF Len(rs.free) > 0 THEN Head(rs.free)
                    ELSE Cardinality(DOMAIN rs.reg) + 1
         IN  [ref |-> ref,
              reg |-> [r \in DOMAIN rs.reg \cup {ref} |->
                          IF r = ref THEN v ELSE rs.reg[r]],
              free |-> IF Len(rs.free) > 0 THEN Tail(rs.free) ELSE rs.free]

\* luaL_unref: negative references are ignored; the slot joins the free list
luaL_unref(rs, ref) ==
    IF ref < 0 THEN rs
    ELSE [reg |-> [r \in DOMAIN rs.reg \ {ref} |-> rs.reg[r]],
          free |-> <<ref>> \o rs.free]

\* lua_rawgeti(L, LUA_REGISTRYINDEX, ref): a released slot holds the number
\* that links the free list, an unused key holds nil
lua_rawgeti(rs, ref) ==
    IF ref \in DOMAIN rs.reg THEN rs.reg[ref]
    ELSE IF \E i \in 1 .. Len(rs.free) : rs.free[i] = ref THEN LNum(0)
    ELSE LNil

RegState == [reg |-> registry, free |-> freeRefs]

\* the userdata of the one connection (l2dbus_Connection), at block address 1
ConnUd == LUdata(1)

(***************************************************************************)
(* l2dbus_Match blocks                                                     *)
(***************************************************************************)
\* a block never allocated.  mem: "none", "alloc" or "freed".  The fields
\* from st on record what was done on behalf of the block: where it is in its
\* life, the handler and user value it was created for, the native unregister
\* calls that have returned, and which of its references are held.
NoShell ==
    [mem |-> "none", matchHnd |-> NULL, connRef |-> 0, funcRef |-> 0, userRef |-> 0,
     st |-> "none", func |-> LNil, user |-> LNil, unregCalls |-> 0, held |-> {}]

\* l2dbus_calloc(1, sizeof(*match)): the address of an unused block
FreshShell == CHOOSE m \in MatchIds : shells[m].mem = "none" /\
                  \A k \in MatchIds : shells[k].mem = "none" => m <= k

\* filterArgs values and the criteria table with no key set
NoArgs == [t |-> "nil", items |-> <<>>]
ArgTable(items) == [t |-> "table", items |-> items]
ArgItem(type, index, value) ==
    [t |-> "table", type |-> type, index |-> index, value |-> value]

EmptyCriteria ==
    [msgType |-> LNil, member |-> LNil, interface |-> LNil, objInterface |-> LNil,
     sender |-> LNil, path |-> LNil, treatPathAsNamespace |-> LNil,
     arg0Namespace |-> LNil, eavesdrop |-> LNil, filterArgs |-> NoArgs]

IdlePC ==
    [op |-> "idle", step |-> "", m |-> NULL, failed |-> FALSE, reason |-> "",
     rule |-> ZeroRule, func |-> LNil, user |-> LNil, errIn |-> "", oom |-> {},
     i |-> 0, c |-> EmptyCriteria]

\* a call has returned to its caller, the dispatch loop has gone through its
\* registrations: the result stands until the program goes on
ReturnedPC == [IdlePC EXCEPT !.op = "returned"]
DispatchedPC == [IdlePC EXCEPT !.op = "dispatched"]

NoDisp ==
    [valid |-> FALSE, msg |-> "", calls |-> <<>>, priorErr |-> FALSE, raised |-> FALSE,
     trace |-> <<>>]
\* op: the call; match: the match returned or disposed; shell: the block the
\* call allocated; errMsg: what the errMsg receiver holds; reason: the
\* reason of the call's failure; rc: what the native client answered; rule:
\* the rule the call built; freed: the blocks of the rule the call has freed,
\* in the order of the calls of l2dbus_free
NoRet ==
    [op |-> "", match |-> NULL, shell |-> NULL, errMsg |-> <<>>, failed |-> FALSE,
     reason |-> "", rc |-> "", rule |-> ZeroRule, freed |-> <<>>]

Init ==
    /\ registry = <<>>
    /\ freeRefs = <<>>
    /\ shells = [m \in MatchIds |-> NoShell]
    /\ native = {}
    /\ pc = IdlePC
    /\ cbStack = <<>>
    /\ disp = NoDisp
    /\ ret = NoRet
    /\ errSeen = FALSE
    /\ loopAlive = TRUE
    /\ nodes = [n \in NodeIds |-> NoNode]
    /\ head = NULL
    /\ iter = [cur |-> NULL, next |-> NULL]
    /\ lstack = <<>>
    /\ ares = NoAres
    /\ errno = "0"
    /\ i64 = NoI64

(***************************************************************************)
(* Inputs: criteria tables, handlers, user values, messages                *)
(***************************************************************************)
\* {msgType = SIGNAL, interface = "com.example.Status", member = "Changed"}
CritChanged ==
    [EmptyCriteria EXCEPT !.msgType = LNum(DBUS_MESSAGE_TYPE_SIGNAL),
                          !.interface = LStr("com.example.Status"),
                          !.member = LStr("Changed")]
\* {member = "Other"}
CritOther == [EmptyCriteria EXCEPT !.member = LStr("Other")]
\* {filterArgs = {{index = 0, value = "on"}}}
CritArg0 ==
    [EmptyCriteria EXCEPT !.filterArgs = ArgTable(<<ArgItem(LNil, LNum(0), LStr("on"))>>)]
\* {filterArgs = {{index = 64, value = "on"}}}: an index out of range
CritBadIndex ==
    [EmptyCriteria EXCEPT !.filterArgs = ArgTable(<<ArgItem(LNil, LNum(64), LStr("on"))>>)]

\* a call of l2dbus_newMatch: the criteria, the handler, the user value, the
\* allocations that fail during it, and what the errMsg argument is:
\* "nullptr" (NULL), "holdsNull" (points to a NULL pointer), "holdsStr"
Request(c, f, u, oom, errIn) ==
    [c |-> c, func |-> f, user |-> u, oom |-> oom, errIn |-> errIn]

Requests ==
    { Request(CritChanged, LFunc("h1"), LStr("u1"), {}, "holdsStr"),
      Request(CritOther, LFunc("h2"), LNil, {}, "holdsStr"),
      Request(CritArg0, LFunc("h1"), LStr("u2"), {}, "holdsNull"),
      Request(CritBadIndex, LFunc("h1"), LStr("u1"), {}, "holdsStr"),
      Request(CritArg0, LFunc("h2"), LStr("u1"), {"filterArgs"}, "holdsStr"),
      Request(CritChanged, LFunc("h2"), LStr("u1"), {"match"}, "holdsStr"),
      Request(CritOther, LFunc("h1"), LStr("u1"), {}, "nullptr") }

(***************************************************************************)
(* l2dbus_newMatch                                                         *)
(***************************************************************************)
\* lines 332-565: the rule is parsed from the criteria table
NewMatchParse(req) ==
    /\ pc.op = "idle"
    /\ \E m \in MatchIds : shells[m].mem = "none"
    /\ LET p == ParseRule(req.c, req.oom) IN
       pc' = [op |-> "newMatch", step |-> "L568", m |-> NULL,
              failed |-> p.failed, reason |-> p.reason, rule |-> p.rule,
              func |-> req.func, user |-> req.user, errIn |-> req.errIn,
              oom |-> req.oom, i |-> 0, c |-> req.c]
    /\ UNCHANGED <<arenaVars, errno, i64>>
    /\ UNCHANGED <<registry, freeRefs, shells, native, cbStack, disp, ret, errSeen,
                   loopAlive>>

\* lines 568-590: the shell is allocated and the rule is registered with the
\* native client, which takes the trampoline and the shell as its context;
\* regOk is whether the native client accepts the registration
NewMatchRegister(regOk) ==
    /\ pc.op = "newMatch" /\ pc.step = "L568"
    /\ IF pc.failed
       THEN /\ pc' = [pc EXCEPT !.step = "L601"]
            /\ UNCHANGED <<shells, native>>
       ELSE IF "match" \in pc.oom
       THEN /\ pc' = [pc EXCEPT !.step = "L601", !.failed = TRUE,
                         !.reason = "failed to allocate memory for match object"]
            /\ UNCHANGED <<shells, native>>
       ELSE LET m == FreshShell IN
            IF regOk
            THEN /\ shells' = [shells EXCEPT ![m] =
                       [NoShell EXCEPT !.mem = "alloc", !.st = "building",
                                       !.func = pc.func, !.user = pc.user,
                                       !.matchHnd = m]]
                 /\ native' = native \cup {[hnd |-> m, ctx |-> m, rule |-> pc.rule]}
                 /\ pc' = [pc EXCEPT !.step = "L593", !.m = m]
            ELSE /\ shells' = [shells EXCEPT ![m] =
                       [NoShell EXCEPT !.mem = "alloc", !.st = "building",
                                       !.func = pc.func, !.user = pc.user]]
                 /\ native' = native
                 /\ pc' = [pc EXCEPT !.step = "L601", !.m = m, !.failed = TRUE,
                              !.reason = "failed to register match handler"]
    /\ UNCHANGED <<arenaVars, errno, i64>>
    /\ UNCHANGED <<registry, freeRefs, cbStack, disp, ret, errSeen, loopAlive>>

\* l2dbus_callbackRef: the handler and the user value are referenced
l2dbus_callbackRef(rs, func, user) ==
    LET f == luaL_ref(rs, func)
        u == luaL_ref([reg |-> f.reg, free |-> f.free], user)
    IN  [funcRef |-> f.ref, userRef |-> u.ref, reg |-> u.reg, free |-> u.free]

\* lines 593-596: the connection, the handler and the user value are referenced
NewMatchRef ==
    /\ pc.op = "newMatch" /\ pc.step = "L593"
    /\ LET c == luaL_ref(RegState, ConnUd)
           cb == l2dbus_callbackRef([reg |-> c.reg, free |-> c.free], pc.func, pc.user)
       IN  /\ registry' = cb.reg
           /\ freeRefs' = cb.free
           /\ shells' = [shells EXCEPT ![pc.m] =
                  [@ EXCEPT !.connRef = c.ref, !.funcRef = cb.funcRef,
                            !.userRef = cb.userRef,
                            !.held = {"conn"}
                                \cup (IF cb.funcRef >= 0 THEN {"func"} ELSE {})
                                \cup (IF cb.userRef >= 0 THEN {"user"} ELSE {})]]
    /\ pc' = [pc EXCEPT !.step = "L601"]
    /\ UNCHANGED <<arenaVars, errno, i64>>
    /\ UNCHANGED <<native, cbStack, disp, ret, errSeen, loopAlive>>

\* a failed call that does not free its match
ReleaseFailed_Leak(shs, m, failed) ==
    IF m = NULL THEN shs
    ELSE IF failed THEN [shs EXCEPT ![m] = [@ EXCEPT !.st = "failed"]]
    ELSE [shs EXCEPT ![m] = [@ EXCEPT !.st = "live"]]

\* lines 606-610: free(match) when the call has failed (free(NULL) does
\* nothing); else the match is the caller's from here on
ReleaseFailed(shs, m, failed) ==
    IF m = NULL THEN shs
    ELSE IF failed THEN [shs EXCEPT ![m] = [@ EXCEPT !.mem = "freed", !.st = "failed"]]
    ELSE [shs EXCEPT ![m] = [@ EXCEPT !.st = "live"]]

\* l2dbus_free(ptr) of the block named b: nothing for a NULL pointer
l2dbus_free(ptr, b) == IF ptr = <<>> THEN <<>> ELSE <<b>>

\* a loop that frees no value
FreeValues_None(arr, idx) == <<>>

\* lines 274-282: the loop over rule->filterArgs from idx on (idx counts
\* from 0 as in the code), up to the first element marked invalid
RECURSIVE FreeValues(_, _)
FreeValues(arr, idx) ==
    IF idx > DBUS_MAXIMUM_MATCH_RULE_ARG_NUMBER THEN <<>>
    ELSE IF arr[idx + 1].argType = "INVALID" THEN <<>>
    ELSE l2dbus_free(arr[idx + 1].value, <<"value", idx + 1>>) \o FreeValues(arr, idx + 1)

\* l2dbus_matchFreeRule, lines 257-287: the blocks freed, in order
l2dbus_matchFreeRule(rule) ==
    l2dbus_free(rule.member, <<"member", 0>>)
    \o l2dbus_free(rule.objInterface, <<"objInterface", 0>>)
    \o l2dbus_free(rule.sender, <<"sender", 0>>)
    \o l2dbus_free(rule.path, <<"path", 0>>)
    \o l2dbus_free(rule.arg0Namespace, <<"arg0Namespace", 0>>)
    \o (IF rule.filterArgs # <<>>
        THEN FreeValues(rule.filterArgs, 0) \o <<<<"filterArgs", 0>>>>
        ELSE <<>>)

\* lines 601-615: the reason is stored through errMsg, a failed shell is
\* freed, the rule is freed, the shell or NULL is returned.  errMsg is
\* dereferenced whatever it is: a NULL errMsg ends the process there.
NewMatchReturn ==
    /\ pc.op = "newMatch" /\ pc.step = "L601"
    /\ IF pc.errIn = "nullptr"
       THEN /\ pc' = [IdlePC EXCEPT !.op = "crashed"]
            /\ UNCHANGED <<shells, ret>>
       ELSE /\ shells' = ReleaseFailed(shells, pc.m, pc.failed)
            /\ ret' = [op |-> "newMatch",
                       match |-> IF pc.failed THEN NULL ELSE pc.m,
                       shell |-> pc.m,
                       errMsg |-> IF pc.errIn = "holdsStr" THEN <<pc.reason>> ELSE <<>>,
                       failed |-> pc.failed, reason |-> pc.reason, rc |-> "",
                       rule |-> pc.rule, freed |-> l2dbus_matchFreeRule(pc.rule)]
            /\ pc' = ReturnedPC
    /\ UNCHANGED <<arenaVars, errno, i64>>
    /\ UNCHANGED <<registry, freeRefs, native, cbStack, disp, errSeen, loopAlive>>

(***************************************************************************)
(* l2dbus_disposeMatch                                                     *)
(***************************************************************************)
\* the references released before the native unregister call
DisposeOrder_RefsFirst == <<"cbUnref", "unreg", "connUnref", "free">>
\* the connection reference never released
DisposeOrder_NoConnUnref == <<"unreg", "cbUnref", "free">>

\* lines 641-650: the statements of l2dbus_disposeMatch in program order
DisposeOrder == <<"unreg", "cbUnref", "connUnref", "free">>

\* the statement of l2dbus_disposeMatch that runs next
DisposeAt(what) ==
    /\ pc.op = "dispose"
    /\ pc.i <= Len(DisposeOrder)
    /\ DisposeOrder[pc.i] = what

\* after a statement: the next one, or the return to the caller
DisposeAdvance ==
    IF pc.i < Len(DisposeOrder)
    THEN /\ pc' = [pc EXCEPT !.i = pc.i + 1]
         /\ ret' = ret
    ELSE /\ pc' = ReturnedPC
         /\ ret' = [NoRet EXCEPT !.op = "dispose", !.match = pc.m, !.rc = pc.reason]

\* lines 627-637: dispose is entered with a match the caller holds
DisposeBegin(m) ==
    /\ pc.op = "idle"
    /\ shells[m].st = "live"
    /\ pc' = [IdlePC EXCEPT !.op = "dispose", !.m = m, !.i = 1]
    /\ shells' = [shells EXCEPT ![m] = [@ EXCEPT !.st = "disposing"]]
    /\ UNCHANGED <<arenaVars, errno, i64>>
    /\ UNCHANGED <<registry, freeRefs, native, cbStack, disp, ret, errSeen, loopAlive>>

\* cdbus_connectionUnregMatchHandler as the native client's interface gives
\* it: "ok" removes the registration; a failure is reported either with the
\* registration still in place ("failKept") or with it gone ("failGone")
UnregOutcomes == {"ok", "failKept", "failGone"}
cdbus_connectionUnregMatchHandler(regs, hnd, rc) ==
    IF rc = "failKept" THEN regs ELSE {r \in regs : r.hnd # hnd}

\* a dispose that gives up when the native client reports a failure
DisposeUnreg_AbortOnFailure(rc) ==
    /\ DisposeAt("unreg")
    /\ native' = cdbus_connectionUnregMatchHandler(native, shells[pc.m].matchHnd, rc)
    /\ shells' = [shells EXCEPT ![pc.m] = [@ EXCEPT !.unregCalls = @ + 1]]
    /\ IF rc = "ok"
       THEN pc' = [pc EXCEPT !.i = pc.i + 1, !.reason = rc] /\ ret' = ret
       ELSE pc' = ReturnedPC /\ ret' = [NoRet EXCEPT !.op = "dispose", !.match = pc.m, !.rc = rc]
    /\ UNCHANGED <<arenaVars, errno, i64>>
    /\ UNCHANGED <<registry, freeRefs, cbStack, disp, errSeen, loopAlive>>

\* lines 639-645: the handler is unregistered from the native client; a
\* failure is traced and nothing else
DisposeUnreg(rc) ==
    /\ DisposeAt("unreg")
    /\ native' = cdbus_connectionUnregMatchHandler(native, shells[pc.m].matchHnd, rc)
    /\ shells' = [shells EXCEPT ![pc.m] = [@ EXCEPT !.unregCalls = @ + 1]]
    /\ IF pc.i < Len(DisposeOrder)
       THEN pc' = [pc EXCEPT !.i = pc.i + 1, !.reason = rc] /\ ret' = ret
       ELSE pc' = ReturnedPC /\ ret' = [NoRet EXCEPT !.op = "dispose", !.match = pc.m, !.rc = rc]
    /\ UNCHANGED <<arenaVars, errno, i64>>
    /\ UNCHANGED <<registry, freeRefs, cbStack, disp, errSeen, loopAlive>>

\* l2dbus_callbackUnref: both references of the callback context are released
l2dbus_callbackUnref(rs, sh) == luaL_unref(luaL_unref(rs, sh.funcRef), sh.userRef)

\* line 646
DisposeCallbackUnref ==
    /\ DisposeAt("cbUnref")
    /\ LET rs == l2dbus_callbackUnref(RegState, shells[pc.m]) IN
       /\ registry' = rs.reg
       /\ freeRefs' = rs.free
    /\ shells' = [shells EXCEPT ![pc.m] = [@ EXCEPT !.held = @ \ {"func", "user"}]]
    /\ DisposeAdvance
    /\ UNCHANGED <<arenaVars, errno, i64>>
    /\ UNCHANGED <<native, cbStack, disp, errSeen, loopAlive>>

\* lines 648-649
DisposeConnUnref ==
    /\ DisposeAt("connUnref")
    /\ LET rs == luaL_unref(RegState, shells[pc.m].connRef) IN
       /\ registry' = rs.reg
       /\ freeRefs' = rs.free
    /\ shells' = [shells EXCEPT ![pc.m] = [@ EXCEPT !.held = @ \ {"conn"}]]
    /\ DisposeAdvance
    /\ UNCHANGED <<arenaVars, errno, i64>>
    /\ UNCHANGED <<native, cbStack, disp, errSeen, loopAlive>>

\* line 650
DisposeFree ==
    /\ DisposeAt("free")
    /\ shells' = [shells EXCEPT ![pc.m] = [@ EXCEPT !.mem = "freed", !.st = "disposed"]]
    /\ DisposeAdvance
    /\ UNCHANGED <<arenaVars, errno, i64>>
    /\ UNCHANGED <<registry, freeRefs, native, cbStack, disp, errSeen, loopAlive>>

(***************************************************************************)
(* Messages and the native client's matching                               *)
(***************************************************************************)
MsgIds == {"Changed", "Other", "Call"}
Message(id) ==
    IF id = "Changed"
    THEN [type |-> "SIGNAL", interface |-> "com.example.Status", member |-> "Changed",
          sender |-> ":1.7", path |-> "/com/example", args |-> <<"on">>]
    ELSE IF id = "Other"
    THEN [type |-> "SIGNAL", interface |-> "com.example.Status", member |-> "Other",
          sender |-> ":1.7", path |-> "/com/example", args |-> <<"off">>]
    ELSE [type |-> "METHOD_CALL", interface |-> "com.example.Ctl", member |-> "Get",
          sender |-> ":1.9", path |-> "/com/example/ctl", args |-> <<>>]

\* s lies in the namespace (or under the path) ns
InNamespace(s, ns) ==
    \/ s = ns
    \/ <<s, ns>> \in {<<"/com/example/ctl", "/com/example">>,
                      <<"com.example.Status", "com.example">>}

\* the filters of a rule, up to its sentinel
RECURSIVE FiltersOf(_)
FiltersOf(arr) ==
    IF arr = <<>> \/ Head(arr).argType = "INVALID" THEN <<>>
    ELSE <<Head(arr)>> \o FiltersOf(Tail(arr))

\* the native client delivers a message to a registration when every field
\* the rule sets agrees with the message
RuleMatches(rule, msg) ==
    /\ rule.msgType = "ANY" \/ rule.msgType = msg.type
    /\ rule.member = <<>> \/ rule.member[1] = msg.member
    /\ rule.objInterface = <<>> \/ rule.objInterface[1] = msg.interface
    /\ rule.sender = <<>> \/ rule.sender[1] = msg.sender
    /\ \/ rule.path = <<>>
       \/ IF rule.treatPathAsNamespace
          THEN InNamespace(msg.path, rule.path[1])
          ELSE rule.path[1] = msg.path
    /\ \/ rule.arg0Namespace = <<>>
       \/ Len(msg.args) >= 1 /\ InNamespace(msg.args[1], rule.arg0Namespace[1])
    /\ LET fs == FiltersOf(rule.filterArgs) IN
       \A i \in 1 .. Len(fs) :
           /\ fs[i].argN + 1 <= Len(msg.args)
           /\ fs[i].value # <<>>
           /\ msg.args[fs[i].argN + 1] = fs[i].value[1]

(***************************************************************************)
(* l2dbus_matchHandler, the dispatch trampoline                            *)
(***************************************************************************)
Outcomes == {"ok", "errstr", "errobj"}
\* what a read of an int field of a freed block can give
GarbageRefs == 1 .. 2

LLight(p) == [t |-> "ludata", n |-> p, s |-> "", b |-> FALSE]
\* l2dbus_messageWrap: a Message userdata that holds the message
l2dbus_messageWrap(id) == [t |-> "message", n |-> 0, s |-> id, b |-> FALSE]
LTable == [t |-> "table", n |-> 0, s |-> "", b |-> FALSE]

\* a field of a match block: its value, or anything once the block is freed
FieldOf(sh, value, garbage) == IF sh.mem = "alloc" THEN value ELSE garbage

\* an unprotected call: an error unwinds through the trampoline
lua_pcall_Unprotected(stack, outcome) ==
    LET n == Len(stack)
        fn == stack[n - 3]
        base == SubSeq(stack, 1, n - 4)
        call == [fn |-> fn, a1 |-> stack[n - 2], a2 |-> stack[n - 1], a3 |-> stack[n]]
    IN  IF fn.t # "func"
        THEN [status |-> 1, stack |-> base, calls |-> <<>>, unwound |-> TRUE]
        ELSE [status |-> 0, stack |-> base, calls |-> <<call>>,
              unwound |-> outcome # "ok"]

\* lua_pcall(L, 3, 0, 0) on a stack that ends with the function and its
\* three arguments: they are popped; a function is called with them and
\* returns or raises as `outcome` says, anything else cannot be called; an
\* error is caught and its value pushed
lua_pcall(stack, outcome) ==
    LET n == Len(stack)
        fn == stack[n - 3]
        base == SubSeq(stack, 1, n - 4)
        call == [fn |-> fn, a1 |-> stack[n - 2], a2 |-> stack[n - 1], a3 |-> stack[n]]
    IN  IF fn.t # "func"
        THEN [status |-> 1, stack |-> Append(base, LStr("attempt to call a value")),
              calls |-> <<>>, unwound |-> FALSE]
        ELSE IF outcome = "ok"
        THEN [status |-> 0, stack |-> base, calls |-> <<call>>, unwound |-> FALSE]
        ELSE [status |-> 1,
              stack |-> Append(base, IF outcome = "errstr" THEN LStr("handler error")
                                     ELSE LTable),
              calls |-> <<call>>, unwound |-> FALSE]

\* the stack left as the call left it
CleanUpStack_Keep(stack) == stack

\* line 245: lua_settop(L, 0)
CleanUpStack(stack) == <<>>

\* lines 217-246: the trampoline, called with the context ctx (a match block
\* or NULL) for the message msg on the callback thread's stack
l2dbus_matchHandler(stack, rs, shs, ctx, msg, outcome, gf, gu) ==
    IF ctx = NULL
    THEN [stack |-> CleanUpStack(stack), calls |-> <<>>, raised |-> FALSE,
          unwound |-> FALSE, trace |-> <<>>]
    ELSE LET funcRef == FieldOf(shs[ctx], shs[ctx].funcRef, gf)
             userRef == FieldOf(shs[ctx], shs[ctx].userRef, gu)
             s4 == stack \o <<lua_rawgeti(rs, funcRef), LLight(ctx),
                              l2dbus_messageWrap(msg), lua_rawgeti(rs, userRef)>>
             r == lua_pcall(s4, outcome)
             top == r.stack[Len(r.stack)]
             errMsg == IF r.status # 0 /\ lua_isstring(top) THEN lua_tostring(top) ELSE ""
         IN  IF r.unwound
             THEN [stack |-> r.stack, calls |-> r.calls, raised |-> TRUE,
                   unwound |-> TRUE, trace |-> <<>>]
             ELSE [stack |-> CleanUpStack(r.stack), calls |-> r.calls,
                   raised |-> r.status # 0, unwound |-> FALSE,
                   trace |-> IF r.status # 0 THEN <<errMsg>> ELSE <<>>]

\* the native client's dispatch of one message: the trampoline is called for
\* every registration the message matches, in the order of their handles,
\* until one of the calls unwinds the loop
RECURSIVE RunMatches(_, _, _, _, _, _, _, _)
RunMatches(h, stack, rs, shs, msg, outs, gf, gu) ==
    IF h > MaxMatch
    THEN [stack |-> stack, calls |-> <<>>, raised |-> FALSE, unwound |-> FALSE,
          trace |-> <<>>]
    ELSE IF ~\E r \in native : r.hnd = h /\ RuleMatches(r.rule, Message(msg))
    THEN RunMatches(h + 1, stack, rs, shs, msg, outs, gf, gu)
    ELSE LET reg == CHOOSE r \in native : r.hnd = h
             one == l2dbus_matchHandler(stack, rs, shs, reg.ctx, msg, outs[h], gf, gu)
         IN  IF one.unwound
             THEN [stack |-> one.stack, calls |-> one.calls, raised |-> TRUE,
                   unwound |-> TRUE, trace |-> one.trace]
             ELSE LET rest == RunMatches(h + 1, one.stack, rs, shs, msg, outs, gf, gu)
                  IN  [stack |-> rest.stack, calls |-> one.calls \o rest.calls,
                       raised |-> one.raised \/ rest.raised, unwound |-> rest.unwound,
                       trace |-> one.trace \o rest.trace]

\* the handles of the registrations a message matches
Matching(msg) == {h \in MatchIds : \E r \in native : r.hnd = h /\ RuleMatches(r.rule, Message(msg))}

\* the values a read of a freed block may give in this state (one value
\* stands for all when no registration's context is a freed block)
Garbage == IF \E r \in native : shells[r.ctx].mem # "alloc" THEN GarbageRefs ELSE {1}

\* a message arrives while no call of the library is in progress
Dispatch(msg, outs, gf, gu) ==
    /\ pc.op = "idle"
    /\ loopAlive
    /\ LET r == RunMatches(1, cbStack, RegState, shells, msg, outs, gf, gu) IN
       /\ cbStack' = r.stack
       /\ disp' = [valid |-> TRUE, msg |-> msg, calls |-> r.calls, priorErr |-> errSeen,
                   raised |-> r.raised, trace |-> r.trace]
       /\ errSeen' = (errSeen \/ r.raised)
       /\ loopAlive' = ~r.unwound
    /\ pc' = DispatchedPC
    /\ UNCHANGED <<arenaVars, errno, i64>>
    /\ UNCHANGED <<registry, freeRefs, shells, native, ret>>

\* the trampoline is called with no match as its context
DispatchNull(msg) ==
    /\ pc.op = "idle"
    /\ loopAlive
    /\ LET r == l2dbus_matchHandler(cbStack, RegState, shells, NULL, msg, "ok", 1, 1) IN
       /\ cbStack' = r.stack
       /\ disp' = [valid |-> TRUE, msg |-> "null", calls |-> r.calls, priorErr |-> errSeen,
                   raised |-> r.raised, trace |-> r.trace]
    /\ pc' = DispatchedPC
    /\ UNCHANGED <<arenaVars, errno, i64>>
    /\ UNCHANGED <<registry, freeRefs, shells, native, ret, errSeen, loopAlive>>

\* the program goes on after a call has returned or a message has been
\* dispatched: the caller has taken what the call left on the Lua stack, and
\* the next call or message may come
Resume ==
    /\ pc.op \in {"returned", "dispatched"}
    /\ pc' = IdlePC
    /\ disp' = NoDisp
    /\ ret' = NoRet
    /\ ares' = NoAres
    /\ lstack' = <<>>
    /\ i64' = NoI64
    /\ UNCHANGED <<registry, freeRefs, shells, native, cbStack, errSeen, loopAlive,
                   nodes, head, iter, errno>>

(***************************************************************************)
(* The reference list, l2dbus_reflist.c                                    *)
(***************************************************************************)
\* the values a reference list is asked to hold: two userdata and a value
\* that is no userdata
ArenaValues == {LUdata(11), LUdata(12), LStr("x")}
\* the references a caller may pass to l2dbus_refListUnref
RefArgs == {LUA_NOREF} \cup (1 .. MaxItems)

\* a field of an l2dbus_RefItem block.  A block that has been freed reads as
\* what it held when it was freed (stale) or as zeroes
NodeRead(ns, n, field, stale) ==
    IF ns[n].mem = "alloc" \/ stale THEN ns[n][field] ELSE NoNode[field]

\* the blocks reached from first along le_next, at most fuel of them
RECURSIVE Chain(_, _, _, _)
Chain(ns, first, stale, fuel) ==
    IF first = NULL \/ fuel = 0 THEN <<>>
    ELSE <<first>> \o Chain(ns, NodeRead(ns, first, "next", stale), stale, fuel - 1)

\* no freed block is reachable from the list head
ListIntact == \A i \in 1 .. Len(Chain(nodes, head, TRUE, MaxItems)) :
                  nodes[Chain(nodes, head, TRUE, MaxItems)[i]].mem = "alloc"

\* the entries of the list in list order: block, reference and referenced value
Entries ==
    LET ch == Chain(nodes, head, TRUE, MaxItems) IN
    [i \in 1 .. Len(ch) |->
        [node |-> ch[i], ref |-> nodes[ch[i]].refIdx,
         val |-> lua_rawgeti(RegState, nodes[ch[i]].refIdx)]]

\* l2dbus_malloc(sizeof(*item)): the address of an unused block
FreshNode == CHOOSE n \in NodeIds : nodes[n].mem = "none" /\
                 \A k \in NodeIds : nodes[k].mem = "none" => n <= k

\* the list left as it is when an item is taken out of it
LIST_REMOVE_Keep(ls, n) == ls

\* LIST_REMOVE(item, link) on list state ls = [nodes, head]
LIST_REMOVE(ls, n) ==
    LET nx == ls.nodes[n].next
        pv == ls.nodes[n].prev
        ns1 == IF nx # NULL THEN [ls.nodes EXCEPT ![nx].prev = pv] ELSE ls.nodes
        ns2 == IF pv # NULL THEN [ns1 EXCEPT ![pv].next = nx] ELSE ns1
    IN  [nodes |-> ns2, head |-> IF pv = NULL THEN nx ELSE ls.head]

\* the new item left out of the list
LIST_INSERT_HEAD_Lost(ls, n, refIdx) == ls

\* lines 673-675: the block n is given the reference refIdx, and
\* LIST_INSERT_HEAD(&refList->list, item, link) on list state ls = [nodes, head]
LIST_INSERT_HEAD(ls, n, refIdx) ==
    [nodes |-> [k \in NodeIds |->
                   IF k = n THEN [mem |-> "alloc", refIdx |-> refIdx,
                                  next |-> ls.head, prev |-> NULL]
                   ELSE IF k = ls.head THEN [ls.nodes[k] EXCEPT !.prev = n]
                   ELSE ls.nodes[k]],
     head |-> n]

\* a reference list call returns to its caller
ArenaReturn(op, arg, result, log, before) ==
    /\ ares' = [op |-> op, arg |-> arg, result |-> result, log |-> log,
                before |-> before, iter |-> iter, stack |-> lstack]
    /\ pc' = ReturnedPC

\* l2dbus_refListRef, lines 656-679; ok is whether l2dbus_malloc succeeds
RefListRef(v, ok) ==
    /\ pc.op = "idle"
    /\ ListIntact
    /\ \E n \in NodeIds : nodes[n].mem = "none"
    /\ IF ~ok
       THEN /\ ArenaReturn("ref", [NoArg EXCEPT !.v = v, !.ok = ok], LUA_NOREF, <<>>, Entries)
            /\ UNCHANGED <<registry, freeRefs, nodes, head>>
       ELSE LET n == FreshNode
                r == luaL_ref(RegState, v)
            IN  /\ registry' = r.reg
                /\ freeRefs' = r.free
                /\ nodes' = LIST_INSERT_HEAD([nodes |-> nodes, head |-> head], n,
                                             r.ref).nodes
                /\ head' = LIST_INSERT_HEAD([nodes |-> nodes, head |-> head], n,
                                            r.ref).head
                /\ ArenaReturn("ref", [NoArg EXCEPT !.v = v, !.ok = ok], r.ref, <<>>,
                               Entries)
    /\ UNCHANGED <<errno, i64, shells, native, cbStack, disp, ret, errSeen, loopAlive, iter, lstack>>

\* the found item reported to the caller as a true status
UnrefItem_StatusTrue(st, item) ==
    LET rs == luaL_unref([reg |-> st.reg, free |-> st.free], st.nodes[item].refIdx)
        ls == LIST_REMOVE([nodes |-> st.nodes, head |-> st.head], item)
    IN  [reg |-> rs.reg, free |-> rs.free,
         nodes |-> [ls.nodes EXCEPT ![item].mem = "freed"],
         head |-> ls.head, status |-> TRUE,
         log |-> <<[e |-> "unref", node |-> item, ref |-> st.nodes[item].refIdx,
                    arg |-> NULL]>>]

\* lines 703-706: what l2dbus_refListUnref does with the item that holds the
\* reference: luaL_unref, LIST_REMOVE, l2dbus_free, status = L2DBUS_FALSE
UnrefItem(st, item) ==
    LET rs == luaL_unref([reg |-> st.reg, free |-> st.free], st.nodes[item].refIdx)
        ls == LIST_REMOVE([nodes |-> st.nodes, head |-> st.head], item)
    IN  [reg |-> rs.reg, free |-> rs.free,
         nodes |-> [ls.nodes EXCEPT ![item].mem = "freed"],
         head |-> ls.head, status |-> FALSE,
         log |-> <<[e |-> "unref", node |-> item, ref |-> st.nodes[item].refIdx,
                    arg |-> NULL]>>]

\* lines 696-709: the loop of l2dbus_refListUnref from block item on
RECURSIVE UnrefLoop(_, _, _)
UnrefLoop(st, item, ref) ==
    IF item = NULL THEN st
    ELSE LET nextItem == st.nodes[item].next IN
         IF ref = st.nodes[item].refIdx
         THEN UnrefItem(st, item)
         ELSE UnrefLoop(st, nextItem, ref)

\* l2dbus_refListUnref, lines 682-713
RefListUnref(ref) ==
    /\ pc.op = "idle"
    /\ ListIntact
    /\ LET st == UnrefLoop([reg |-> registry, free |-> freeRefs, nodes |-> nodes,
                            head |-> head, status |-> FALSE, log |-> <<>>], head, ref)
       IN  /\ registry' = st.reg
           /\ freeRefs' = st.free
           /\ nodes' = st.nodes
           /\ head' = st.head
           /\ ArenaReturn("unref", [NoArg EXCEPT !.ref = ref], IF st.status THEN 1 ELSE 0,
                          st.log, Entries)
    /\ UNCHANGED <<errno, i64, shells, native, cbStack, disp, ret, errSeen, loopAlive, iter, lstack>>

\* the reference released before the finalizer is called
FreeItemOrder_ReleaseFirst == <<"unref", "final", "free">>

\* lines 642-650: what l2dbus_refListFree does with one item, in program order
FreeItemOrder == <<"final", "unref", "free">>

\* one statement of the body of the loop of l2dbus_refListFree.  hasFunc is
\* whether the caller gave a finalizer; the finalizer's call is logged with
\* the userdata pointer it is given
FreeItemStep(st, item, what, hasFunc) ==
    LET refIdx == st.nodes[item].refIdx IN
    IF what = "final"
    THEN IF hasFunc
         THEN LET itemUd == lua_touserdata(lua_rawgeti([reg |-> st.reg, free |-> st.free],
                                                       refIdx))
              IN  [st EXCEPT !.log = Append(@, [e |-> "final", node |-> item,
                                                ref |-> refIdx, arg |-> itemUd])]
         ELSE st
    ELSE IF what = "unref"
    THEN LET rs == luaL_unref([reg |-> st.reg, free |-> st.free], refIdx) IN
         [st EXCEPT !.reg = rs.reg, !.free = rs.free,
                    !.log = Append(@, [e |-> "unref", node |-> item, ref |-> refIdx,
                                       arg |-> NULL])]
    ELSE [st EXCEPT !.nodes = [@ EXCEPT ![item].mem = "freed"]]

RECURSIVE FreeItemSteps(_, _, _, _)
FreeItemSteps(st, item, i, hasFunc) ==
    IF i > Len(FreeItemOrder) THEN st
    ELSE FreeItemSteps(FreeItemStep(st, item, FreeItemOrder[i], hasFunc), item, i + 1,
                       hasFunc)

\* lines 637-651: the loop of l2dbus_refListFree from block item on
RECURSIVE FreeLoop(_, _, _)
FreeLoop(st, item, hasFunc) ==
    IF item = NULL THEN st
    ELSE LET nextItem == st.nodes[item].next IN
         FreeLoop(FreeItemSteps(st, item, 1, hasFunc), nextItem, hasFunc)

\* l2dbus_refListFree, lines 622-653: every item is finalized, released and
\* freed; refList->list is not written
RefListFree(hasFunc) ==
    /\ pc.op = "idle"
    /\ ListIntact
    /\ LET st == FreeLoop([reg |-> registry, free |-> freeRefs, nodes |-> nodes,
                           log |-> <<>>], head, hasFunc)
       IN  /\ registry' = st.reg
           /\ freeRefs' = st.free
           /\ nodes' = st.nodes
           /\ ArenaReturn("free", NoArg, IF hasFunc THEN 1 ELSE 0, st.log, Entries)
    /\ head' = head
    /\ UNCHANGED <<errno, i64, shells, native, cbStack, disp, ret, errSeen, loopAlive, iter, lstack>>

\* l2dbus_refListIterInit, lines 716-728.  LIST_NEXT reads through iter->cur
\* whatever it is: on an empty list that is a read through NULL, which ends
\* the process
RefListIterInit(stale) ==
    /\ pc.op = "idle"
    /\ IF head = NULL
       THEN /\ pc' = [IdlePC EXCEPT !.op = "crashed"]
            /\ UNCHANGED <<iter, ares>>
       ELSE /\ iter' = [cur |-> head, next |-> NodeRead(nodes, head, "next", stale)]
            /\ ArenaReturn("iterInit", NoArg, 0, <<>>, Entries)
    /\ UNCHANGED <<registry, freeRefs, errno, i64, shells, native, cbStack, disp, ret, errSeen,
                   loopAlive, nodes, head, lstack>>

\* l2dbus_refListIterCurrent, lines 731-748
RefListIterCurrent(stale) ==
    /\ pc.op = "idle"
    /\ ArenaReturn("iterCurrent", NoArg,
                   IF iter.cur # NULL THEN NodeRead(nodes, iter.cur, "refIdx", stale)
                   ELSE LUA_NOREF,
                   <<>>, Entries)
    /\ UNCHANGED <<registry, freeRefs, errno, i64, shells, native, cbStack, disp, ret, errSeen,
                   loopAlive, nodes, head, iter, lstack>>

\* lines 757-768: the iterator after l2dbus_refListIterNext and what the
\* call returns
IterNext(it, ns, stale) ==
    IF it.next # NULL
    THEN [iter |-> [cur |-> it.next, next |-> NodeRead(ns, it.next, "next", stale)],
          hasNext |-> TRUE]
    ELSE [iter |-> [cur |-> it.next, next |-> it.next], hasNext |-> FALSE]

\* l2dbus_refListIterNext, lines 751-771
RefListIterNext(stale) ==
    /\ pc.op = "idle"
    /\ iter' = IterNext(iter, nodes, stale).iter
    /\ ArenaReturn("iterNext", NoArg, IF IterNext(iter, nodes, stale).hasNext THEN 1 ELSE 0,
                   <<>>, Entries)
    /\ UNCHANGED <<registry, freeRefs, errno, i64, shells, native, cbStack, disp, ret, errSeen,
                   loopAlive, nodes, head, lstack>>

\* lines 780-789: l2dbus_refListIterErase on st = [reg, free, nodes, head]
\* with iterator it: the current item is taken out of the list, its
\* reference released, its block freed, and the iterator moved on
IterErase(st, it, stale) ==
    IF it.cur = NULL
    THEN [reg |-> st.reg, free |-> st.free, nodes |-> st.nodes, head |-> st.head,
          iter |-> it, log |-> <<>>]
    ELSE LET ls == LIST_REMOVE([nodes |-> st.nodes, head |-> st.head], it.cur)
             rs == luaL_unref([reg |-> st.reg, free |-> st.free], st.nodes[it.cur].refIdx)
             ns == [ls.nodes EXCEPT ![it.cur].mem = "freed"]
         IN  [reg |-> rs.reg, free |-> rs.free, nodes |-> ns, head |-> ls.head,
              iter |-> IterNext(it, ns, stale).iter,
              log |-> <<[e |-> "unref", node |-> it.cur, ref |-> st.nodes[it.cur].refIdx,
                         arg |-> NULL]>>]

\* l2dbus_refListIterErase, lines 774-792, called with an iterator that is
\* at the end or on an item of the list
RefListIterErase(stale) ==
    /\ pc.op = "idle"
    /\ iter.cur # NULL => nodes[iter.cur].mem = "alloc"
    /\ LET st == IterErase([reg |-> registry, free |-> freeRefs, nodes |-> nodes,
                            head |-> head], iter, stale)
       IN  /\ registry' = st.reg
           /\ freeRefs' = st.free
           /\ nodes' = st.nodes
           /\ head' = st.head
           /\ iter' = st.iter
           /\ ArenaReturn("iterErase", NoArg, 0, st.log, Entries)
    /\ UNCHANGED <<errno, i64, shells, native, cbStack, disp, ret, errSeen, loopAlive, lstack>>

\* l2dbus_refListIterRefItem, lines 795-821: when the iterator is on an item
\* the referenced value is pushed and stays on the stack, and the call returns
\* its userdata pointer or NULL; at the end nothing is pushed
RefListIterRefItem(stale) ==
    /\ pc.op = "idle"
    /\ IF iter.cur # NULL
       THEN LET v == lua_rawgeti(RegState, NodeRead(nodes, iter.cur, "refIdx", stale)) IN
            /\ lstack' = Append(lstack, v)
            /\ ArenaReturn("iterRefItem", NoArg,
                           IF lua_isuserdata(v) THEN lua_touserdata(v) ELSE NULL,
                           <<>>, Entries)
       ELSE /\ lstack' = lstack
            /\ ArenaReturn("iterRefItem", NoArg, NULL, <<>>, Entries)
    /\ UNCHANGED <<registry, freeRefs, errno, i64, shells, native, cbStack, disp, ret, errSeen,
                   loopAlive, nodes, head, iter>>

\* lua_pop(L, n)
lua_pop(stack, n) == SubSeq(stack, 1, Len(stack) - n)

\* the loop going on after the item is found: the last item that holds it
RECURSIVE FindLoop_Last(_, _, _, _, _)
FindLoop_Last(cur, item, stale, fuel, stack) ==
    IF cur = NULL \/ fuel = 0 THEN [found |-> NULL, stack |-> stack]
    ELSE LET v == lua_rawgeti(RegState, NodeRead(nodes, cur, "refIdx", stale))
             rest == FindLoop_Last(NodeRead(nodes, cur, "next", stale), item, stale,
                                   fuel - 1, lua_pop(Append(stack, v), 1))
         IN  IF lua_isuserdata(v) /\ item = lua_touserdata(v) /\ rest.found = NULL
             THEN [found |-> cur, stack |-> rest.stack]
             ELSE rest

\* lines 838-851: the loop of l2dbus_refListFindItem from block cur on: the
\* value of each item is pushed, compared and popped; the result is the first
\* block whose value is the userdata item, or NULL, and the Lua stack
RECURSIVE FindLoop(_, _, _, _, _)
FindLoop(cur, item, stale, fuel, stack) ==
    IF cur = NULL \/ fuel = 0 THEN [found |-> NULL, stack |-> stack]
    ELSE LET v == lua_rawgeti(RegState, NodeRead(nodes, cur, "refIdx", stale))
             pushed == Append(stack, v)
         IN  IF lua_isuserdata(v) /\ item = lua_touserdata(v)
             THEN [found |-> cur, stack |-> lua_pop(pushed, 1)]
             ELSE FindLoop(NodeRead(nodes, cur, "next", stale), item, stale, fuel - 1,
                           lua_pop(pushed, 1))

\* l2dbus_refListFindItem, lines 824-855
RefListFindItem(item, stale) ==
    /\ pc.op = "idle"
    /\ LET r == FindLoop(head, item, stale, MaxItems + 1, lstack) IN
       /\ lstack' = r.stack
       /\ IF r.found # NULL
          THEN /\ iter' = [cur |-> r.found,
                           next |-> NodeRead(nodes, r.found, "next", stale)]
               /\ ArenaReturn("find", [NoArg EXCEPT !.item = item], 1, <<>>, Entries)
          ELSE /\ iter' = iter
               /\ ArenaReturn("find", [NoArg EXCEPT !.item = item], 0, <<>>, Entries)
    /\ UNCHANGED <<registry, freeRefs, errno, i64, shells, native, cbStack, disp, ret, errSeen,
                   loopAlive, nodes, head>>

\* the userdata pointers a caller may look for
FindArgs == {11, 12, 13}

NextArena ==
    \/ \E v \in ArenaValues, ok \in BOOLEAN : RefListRef(v, ok)
    \/ \E ref \in RefArgs : RefListUnref(ref)
    \/ \E hasFunc \in BOOLEAN : RefListFree(hasFunc)
    \/ \E stale \in BOOLEAN : RefListIterInit(stale)
    \/ \E stale \in BOOLEAN : RefListIterCurrent(stale)
    \/ \E stale \in BOOLEAN : RefListIterNext(stale)
    \/ \E stale \in BOOLEAN : RefListIterErase(stale)
    \/ \E stale \in BOOLEAN : RefListIterRefItem(stale)
    \/ \E item \in FindArgs, stale \in BOOLEAN : RefListFindItem(item, stale)
    \/ Resume

SpecArena == Init /\ [][NextArena]_vars

(***************************************************************************)
(* A traversal of a reference list: the iterator is initialised, and at    *)
(* each item the caller either erases it or moves on, until the iterator   *)
(* is at the end.  ares.before is the list when the traversal began and    *)
(* ares.log the items the iterator stood on and the releases, in order.    *)
(***************************************************************************)
\* the iterator stands on a block
VisitOf(it) ==
    IF it.cur = NULL THEN <<>>
    ELSE <<[e |-> "visit", node |-> it.cur, ref |-> nodes[it.cur].refIdx, arg |-> NULL]>>

\* l2dbus_refListIterInit, lines 716-728, begins the traversal
TravBegin(stale) ==
    /\ pc.op = "idle"
    /\ ListIntact
    /\ IF head = NULL
       THEN /\ pc' = [IdlePC EXCEPT !.op = "crashed"]
            /\ UNCHANGED <<iter, ares>>
       ELSE /\ iter' = [cur |-> head, next |-> NodeRead(nodes, head, "next", stale)]
            /\ ares' = [NoAres EXCEPT !.op = "traverse", !.log = VisitOf([cur |-> head]),
                                      !.before = Entries, !.iter = iter,
                                      !.stack = lstack]
            /\ pc' = [IdlePC EXCEPT !.op = "traverse"]
    /\ UNCHANGED <<registry, freeRefs, errno, i64, shells, native, cbStack, disp, ret, errSeen,
                   loopAlive, nodes, head, lstack>>

\* l2dbus_refListIterErase, lines 774-792, at the current item
TravErase(stale) ==
    /\ pc.op = "traverse"
    /\ iter.cur # NULL
    /\ LET st == IterErase([reg |-> registry, free |-> freeRefs, nodes |-> nodes,
                            head |-> head], iter, stale)
       IN  /\ registry' = st.reg
           /\ freeRefs' = st.free
           /\ nodes' = st.nodes
           /\ head' = st.head
           /\ iter' = st.iter
           /\ ares' = [ares EXCEPT !.log = @ \o st.log \o VisitOf(st.iter)]
    /\ UNCHANGED <<errno, i64, shells, native, pc, cbStack, disp, ret, errSeen, loopAlive, lstack>>

\* l2dbus_refListIterNext, lines 751-771, from the current item
TravAdvance(stale) ==
    /\ pc.op = "traverse"
    /\ iter.cur # NULL
    /\ iter' = IterNext(iter, nodes, stale).iter
    /\ ares' = [ares EXCEPT !.log = @ \o VisitOf(IterNext(iter, nodes, stale).iter)]
    /\ UNCHANGED <<registry, freeRefs, errno, i64, shells, native, pc, cbStack, disp, ret, errSeen,
                   loopAlive, nodes, head, lstack>>

\* l2dbus_refListIterCurrent, lines 731-748, returns LUA_NOREF: the iterator
\* is at the end and the traversal is over
TravEnd ==
    /\ pc.op = "traverse"
    /\ iter.cur = NULL
    /\ pc' = ReturnedPC
    /\ ares' = [ares EXCEPT !.result = LUA_NOREF]
    /\ UNCHANGED <<registry, freeRefs, errno, i64, shells, native, cbStack, disp, ret, errSeen,
                   loopAlive, nodes, head, iter, lstack>>

NextTraverse ==
    \/ \E v \in ArenaValues, ok \in BOOLEAN : RefListRef(v, ok)
    \/ \E stale \in BOOLEAN : TravBegin(stale)
    \/ \E stale \in BOOLEAN : TravErase(stale)
    \/ \E stale \in BOOLEAN : TravAdvance(stale)
    \/ TravEnd
    \/ Resume

SpecTraverse == Init /\ [][NextTraverse]_vars

(***************************************************************************)
(* The Int64 type, l2dbus_int64.c.  int64_t is modelled with IntBits bits  *)
(* in two's complement; a string is the sequence of its characters; errno  *)
(* is "0", "EINVAL" or "ERANGE".                                           *)
(***************************************************************************)
\* LLONG_MAX and LLONG_MIN of the modelled int64_t
INT64_MAX == 2 ^ (IntBits - 1) - 1
INT64_MIN == -(2 ^ (IntBits - 1))
Int64Range == INT64_MIN .. INT64_MAX
\* the value of the int64_t that holds x modulo 2^IntBits
Wrap(x) == ((x - INT64_MIN) % (2 ^ IntBits)) + INT64_MIN

\* the characters of the model's strings
Chars == {" ", "-", "0", "1", "9", "a"}
\* the value of a character as a digit, 99 for a character that is none
DigitOf(c) ==
    IF c = "0" THEN 0 ELSE IF c = "1" THEN 1 ELSE IF c = "9" THEN 9
    ELSE IF c = "a" THEN 10 ELSE 99

\* strtoll: leading white space is skipped
RECURSIVE SkipSpace(_)
SkipSpace(cs) == IF cs # <<>> /\ Head(cs) = " " THEN SkipSpace(Tail(cs)) ELSE cs

\* strtoll: the subject sequence of the string s1 that follows the white
\* space: an optional sign and digits; base 0 takes the base from the first
\* digit, 8 after a 0 and 10 otherwise
Subject(s1, base) ==
    [neg |-> s1 # <<>> /\ Head(s1) = "-",
     digits |-> IF s1 # <<>> /\ Head(s1) = "-" THEN Tail(s1) ELSE s1,
     base |-> IF base # 0 THEN base
              ELSE IF Len(s1) >= 2 /\ Head(s1) = "-" /\ s1[2] = "0" THEN 8
              ELSE IF s1 # <<>> /\ Head(s1) = "0" THEN 8
              ELSE 10]

\* strtoll: the digits are accumulated up to the first character that is no
\* digit of the base; a magnitude beyond limit is remembered as an overflow
RECURSIVE Accumulate(_, _, _, _)
Accumulate(cs, base, limit, st) ==
    IF cs = <<>> \/ DigitOf(Head(cs)) >= base THEN st
    ELSE Accumulate(Tail(cs), base, limit,
                    IF st.over \/ st.acc * base + DigitOf(Head(cs)) > limit
                    THEN [acc |-> limit, any |-> TRUE, over |-> TRUE]
                    ELSE [acc |-> st.acc * base + DigitOf(Head(cs)), any |-> TRUE,
                          over |-> FALSE])

\* strtoll: the value returned and errno afterwards, for the subject sub and
\* its accumulated digits r.  Out of range the result is LLONG_MAX or
\* LLONG_MIN and errno is ERANGE; without any digit the result is 0, and a C
\* library may or may not set errno to EINVAL (einval); errno is never cleared
Converted(sub, r, e, einval) ==
    IF ~r.any THEN [value |-> 0, errno |-> IF einval THEN "EINVAL" ELSE e]
    ELSE IF r.over THEN [value |-> IF sub.neg THEN INT64_MIN ELSE INT64_MAX,
                         errno |-> "ERANGE"]
    ELSE [value |-> IF sub.neg THEN -r.acc ELSE r.acc, errno |-> e]

\* strtoll(vStr, NULL, base) for a valid base, with errno e when it is called
strtoll(cs, base, e, einval) ==
    Converted(Subject(SkipSpace(cs), base),
              Accumulate(Subject(SkipSpace(cs), base).digits,
                         Subject(SkipSpace(cs), base).base,
                         IF Subject(SkipSpace(cs), base).neg THEN -INT64_MIN
                         ELSE INT64_MAX,
                         [acc |-> 0, any |-> FALSE, over |-> FALSE]),
              e, einval)

\* the arguments of the Int64 calls: a Lua number with an integral value, a
\* string, an Int64 userdata, a Uint64 userdata, and nil, which also stands
\* for an argument that is absent
I64Num(k) == [t |-> "num", n |-> k, chars |-> <<>>]
I64Str(cs) == [t |-> "str", n |-> 0, chars |-> cs]
I64Ud(v) == [t |-> "int64", n |-> v, chars |-> <<>>]
U64Ud(v) == [t |-> "uint64", n |-> v, chars |-> <<>>]
I64Nil == [t |-> "nil", n |-> 0, chars |-> <<>>]

\* line 99: the base of a string conversion; without a value at baseIdx it
\* is 10
BaseOf(base) == IF base.t = "nil" THEN 10 ELSE base.n
\* line 100
BaseValid(b) == ~(((2 > b) \/ (36 < b)) /\ (0 # b))

\* lines 106-116: what l2dbus_int64Cast makes of the result r of strtoll
CheckConverted(r) ==
    IF (0 = r.value) /\ ((r.errno = "EINVAL") \/ (r.errno = "ERANGE"))
    THEN [value |-> 0,
          raised |-> IF "EINVAL" = r.errno THEN "unable to convert number"
                     ELSE "number out of range",
          errno |-> r.errno]
    ELSE [value |-> r.value, raised |-> "", errno |-> r.errno]

\* l2dbus_int64Cast, lines 77-151, of value v with the base argument base and
\* errno e: the int64_t, the error raised ("" for none) and errno afterwards
l2dbus_int64Cast(v, base, e, einval) ==
    IF v.t = "num" THEN [value |-> v.n, raised |-> "", errno |-> e]
    ELSE IF v.t = "str"
    THEN IF base.t \notin {"nil", "num"}
         THEN [value |-> 0, raised |-> "bad argument", errno |-> e]
         ELSE IF ~BaseValid(BaseOf(base))
         THEN [value |-> 0, raised |-> "base must be range [2, 36] or equal to 0",
               errno |-> e]
         ELSE CheckConverted(strtoll(v.chars, BaseOf(base), e, einval))
    ELSE IF v.t = "int64" THEN [value |-> v.n, raised |-> "", errno |-> e]
    ELSE IF v.t = "uint64" THEN [value |-> Wrap(v.n), raised |-> "", errno |-> e]
    ELSE [value |-> 0, raised |-> "cannot be converted to int64", errno |-> e]

\* an Int64 call returns the Int64 to its caller, or raises an error
Int64Return(op, a, b, r) ==
    /\ i64' = [op |-> op, a |-> a, b |-> b, errnoIn |-> errno,
               raised |-> r.raised, value |-> IF r.raised = "" THEN r.value ELSE 0]
    /\ errno' = r.errno
    /\ pc' = ReturnedPC

\* l2dbus_newInt64, lines 193-226, called with no argument (args = <<>>), a
\* value, or a value and a base
l2dbus_newInt64(args, einval) ==
    /\ pc.op = "idle"
    /\ IF Len(args) = 0
       THEN Int64Return("new", I64Nil, I64Nil,
                        [value |-> 0, raised |-> "", errno |-> errno])
       ELSE IF Len(args) = 1
       THEN Int64Return("new", args[1], I64Nil,
                        l2dbus_int64Cast(args[1], I64Num(10), errno, einval))
       ELSE Int64Return("new", args[1], args[2],
                        l2dbus_int64Cast(args[1], args[2], errno, einval))
    /\ UNCHANGED <<registry, freeRefs, shells, native, cbStack, disp, ret, errSeen,
                   loopAlive, arenaVars>>

\* the operators of l2dbus_int64Add, Subtract, Multiply, Divide and Modulus
BinOps == {"add", "sub", "mul", "div", "mod"}
\* C integer division: the quotient is cut towards zero
CQuot(a, b) ==
    IF (a < 0) = (b < 0)
    THEN (IF a < 0 THEN -a ELSE a) \div (IF b < 0 THEN -b ELSE b)
    ELSE -((IF a < 0 THEN -a ELSE a) \div (IF b < 0 THEN -b ELSE b))

\* the mathematical result of a op b, for b # 0 where the operator divides
Exact(op, a, b) ==
    IF op = "add" THEN a + b
    ELSE IF op = "sub" THEN a - b
    ELSE IF op = "mul" THEN a * b
    ELSE IF op = "div" THEN CQuot(a, b)
    ELSE a - b * CQuot(a, b)

\* a op b on int64_t is defined by C: no division by zero, and the result
\* (for % the quotient too) can be represented
Defined(op, a, b) ==
    IF op \in {"div", "mod"} THEN b # 0 /\ CQuot(a, b) \in Int64Range
    ELSE Exact(op, a, b) \in Int64Range

\* the operator of lines 241, 258, 275, 292 and 309 applied to two int64_t.
\* An operation that C leaves undefined ends the process when the build traps
\* on it; otherwise + - * leave the result modulo 2^IntBits, and / and %
\* leave some int64_t, left
Apply(op, x, y, trap, left) ==
    IF Defined(op, x, y) THEN [crash |-> FALSE, value |-> Exact(op, x, y)]
    ELSE IF trap THEN [crash |-> TRUE, value |-> 0]
    ELSE [crash |-> FALSE,
          value |-> IF op \in {"div", "mod"} THEN left ELSE Wrap(Exact(op, x, y))]

\* lines 237-242 (and 254-259, 271-276, 288-293, 305-310) after the casts of
\* the operands, ca and cb: an error raised by a cast ends the call; else the
\* operator is applied and the Int64 returned, or the process is ended
BinaryResult(op, a, b, ca, cb, trap, left) ==
    IF ca.raised # "" THEN Int64Return(op, a, b, ca)
    ELSE IF cb.raised # "" THEN Int64Return(op, a, b, cb)
    ELSE IF Apply(op, ca.value, cb.value, trap, left).crash
    THEN /\ i64' = [op |-> op, a |-> a, b |-> b, errnoIn |-> errno, raised |-> "",
                    value |-> 0]
         /\ errno' = cb.errno
         /\ pc' = [IdlePC EXCEPT !.op = "crashed"]
    ELSE Int64Return(op, a, b,
                     [value |-> Apply(op, ca.value, cb.value, trap, left).value,
                      raised |-> "", errno |-> cb.errno])

\* l2dbus_int64Add, l2dbus_int64Subtract, l2dbus_int64Multiply,
\* l2dbus_int64Divide and l2dbus_int64Modulus, lines 229-311: the first
\* operand is cast, then the second, with base 10 for strings, and the
\* operator is applied
BinaryOp(op, a, b) ==
    /\ pc.op = "idle"
    /\ \E trap \in BOOLEAN, einval \in BOOLEAN,
          left \in IF op \in {"div", "mod"} THEN Int64Range ELSE {0} :
          BinaryResult(op, a, b, l2dbus_int64Cast(a, I64Nil, errno, einval),
                       l2dbus_int64Cast(b, I64Nil,
                           l2dbus_int64Cast(a, I64Nil, errno, einval).errno, einval),
                       trap, left)
    /\ UNCHANGED <<registry, freeRefs, shells, native, cbStack, disp, ret, errSeen,
                   loopAlive, arenaVars>>

\* the strings of at most n characters
RECURSIVE StringsUpTo(_)
StringsUpTo(n) ==
    IF n = 0 THEN {<<>>}
    ELSE StringsUpTo(n - 1) \cup
         {Append(s, c) : s \in {t \in StringsUpTo(n - 1) : Len(t) = n - 1}, c \in Chars}
\* the argument lists of Int64.new: none, a string, a string and a base (a
\* valid one, 1, 37 or nil), and a value that is no string
NewArgs ==
    {<<>>} \cup {<<I64Str(s)>> : s \in StringsUpTo(MaxStrLen)}
    \cup {<<I64Str(s), I64Num(k)>> : s \in StringsUpTo(MaxStrLen),
                                      k \in {0, 1, 2, 10, 16, 37}}
    \cup {<<I64Str(s), I64Nil>> : s \in StringsUpTo(MaxStrLen)}
    \cup {<<v>> : v \in {I64Num(1), I64Ud(INT64_MIN), U64Ud(2 ^ IntBits - 1), I64Nil}}
\* the operands of the binary operators, numbered: every Int64, the numbers
\* 0 and 1, the greatest Uint64, the strings "0" and "-1", and nil
Operands == INT64_MIN .. (INT64_MAX + 6)
OperandOf(k) ==
    IF k <= INT64_MAX THEN I64Ud(k)
    ELSE IF k = INT64_MAX + 1 THEN I64Num(0)
    ELSE IF k = INT64_MAX + 2 THEN I64Num(1)
    ELSE IF k = INT64_MAX + 3 THEN U64Ud(2 ^ IntBits - 1)
    ELSE IF k = INT64_MAX + 4 THEN I64Str(<<"0">>)
    ELSE IF k = INT64_MAX + 5 THEN I64Str(<<"-", "1">>)
    ELSE I64Nil

NextInt64 ==
    \/ pc.op = "idle" /\ \E args \in NewArgs, einval \in BOOLEAN :
                            l2dbus_newInt64(args, einval)
    \/ pc.op = "idle" /\ \E op \in BinOps, a \in Operands, b \in Operands :
                            BinaryOp(op, OperandOf(a), OperandOf(b))
    \/ Resume

SpecInt64 == Init /\ [][NextInt64]_vars

Next ==
    \/ \E req \in Requests : NewMatchParse(req)
    \/ \E regOk \in BOOLEAN : NewMatchRegister(regOk)
    \/ NewMatchRef
    \/ NewMatchReturn
    \/ \E m \in MatchIds : DisposeBegin(m)
    \/ \E rc \in UnregOutcomes : DisposeUnreg(rc)
    \/ DisposeCallbackUnref
    \/ DisposeConnUnref
    \/ DisposeFree
    \/ \E msg \in MsgIds : \E outs \in [Matching(msg) -> Outcomes], gf \in Garbage,
          gu \in Garbage : Dispatch(msg, outs, gf, gu)
    \/ \E msg \in MsgIds : DispatchNull(msg)
    \/ Resume

Spec == Init /\ [][Next]_vars


(***************************************************************************)
(* Properties of dispose, register and dispatch                            *)
(***************************************************************************)
\* the references a match holds from its creation to its disposal
FullHeld(sh) == {"conn", "func"} \cup (IF sh.user.t # "nil" THEN {"user"} ELSE {})

\* the registry slot behind a held reference of a match
RefOf(m, f) ==
    IF f = "conn" THEN shells[m].connRef
    ELSE IF f = "func" THEN shells[m].funcRef
    ELSE shells[m].userRef

\* the value a held reference of a match was taken on
ValueOf(m, f) ==
    IF f = "conn" THEN ConnUd ELSE IF f = "func" THEN shells[m].func ELSE shells[m].user

\* the references held on behalf of the matches
HeldPairs == {p \in MatchIds \X {"conn", "func", "user"} : p[2] \in shells[p[1]].held}

\* the registry holds the held references of the matches, each in a slot of
\* its own with the value it was taken on, and nothing else
HeldRefsExact ==
    /\ DOMAIN registry = {RefOf(p[1], p[2]) : p \in HeldPairs}
    /\ Cardinality(DOMAIN registry) = Cardinality(HeldPairs)
    /\ \A p \in HeldPairs : registry[RefOf(p[1], p[2])] = ValueOf(p[1], p[2])

\* no call of the library is in progress
BetweenCalls == pc.op \in {"idle", "returned", "dispatched"}

\* C1: in every dispose of a live subscription the native unregister call
\* comes first, the references are released after it and the shell is freed
\* last: while the unregister call has not returned every reference is held
\* and the shell is allocated, and the shell is freed only once no reference
\* is held.
C1_DisposeOrder ==
    \A m \in MatchIds :
        shells[m].st \in {"live", "disposing", "disposed"} =>
            /\ shells[m].unregCalls = 0 =>
                   shells[m].held = FullHeld(shells[m]) /\ shells[m].mem = "alloc"
            /\ shells[m].mem = "freed" => shells[m].held = {}
            /\ shells[m].unregCalls <= 1

\* a dispose has run to its end
C1_Witness ==
    /\ ret.op = "dispose"
    /\ shells[ret.match].mem = "freed"
    /\ shells[ret.match].unregCalls = 1
    /\ shells[ret.match].held = {}

\* C2: whenever the native client can call the trampoline for a registration,
\* the shell that is the registration's context is not freed and its handler
\* and user-data references are held.
C2_NoDispatchToFreedShell ==
    (pc.op = "idle" /\ loopAlive) =>
        \A r \in native :
            /\ shells[r.ctx].mem = "alloc"
            /\ FullHeld(shells[r.ctx]) \ {"conn"} \subseteq shells[r.ctx].held

\* C3: between calls the held references are exactly the connection, handler
\* and user-data references of the subscriptions that were not disposed.
C3_HeldRefsOfLive ==
    BetweenCalls =>
        /\ \A m \in MatchIds :
               shells[m].held = IF shells[m].st = "live" THEN FullHeld(shells[m]) ELSE {}
        /\ HeldRefsExact

\* one subscription was disposed while another stays
C3_Witness ==
    /\ ret.op = "dispose"
    /\ shells[ret.match].st = "disposed"
    /\ \E m \in MatchIds : m # ret.match /\ shells[m].st = "live"

\* C6: a register that fails returns no subscription and leaves nothing
\* behind: no native registration of the attempt, no reference retained, the
\* shell freed if it was allocated.
C6_FailedRegisterLeavesNothing ==
    (ret.op = "newMatch" /\ ret.failed) =>
        /\ ret.match = NULL
        /\ ret.shell # NULL =>
               /\ shells[ret.shell].mem = "freed"
               /\ shells[ret.shell].held = {}
               /\ ~\E r \in native : r.ctx = ret.shell
        /\ \A r \in native : shells[r.ctx].st # "failed"
        /\ HeldRefsExact

\* the native registration failed after the shell had been allocated
C6_Witness ==
    /\ ret.op = "newMatch" /\ ret.failed
    /\ ret.shell # NULL
    /\ ret.errMsg = <<"failed to register match handler">>

\* the call the trampoline is to make for the subscription with shell h
ExpectedCall(h, msg) ==
    [fn |-> shells[h].func, a1 |-> LLight(h), a2 |-> l2dbus_messageWrap(msg),
     a3 |-> shells[h].user]

\* C7: a message that matches no registered rule invokes no handler; a
\* message that matches exactly one registered rule invokes that rule's
\* handler once with (handle, message, user-data) and no other handler.
C7_DispatchExact ==
    (pc.op = "dispatched" /\ disp.msg # "null") =>
        LET M == Matching(disp.msg) IN
        /\ M = {} => disp.calls = <<>>
        /\ Cardinality(M) = 1 =>
               disp.calls = <<ExpectedCall(CHOOSE h \in M : TRUE, disp.msg)>>

\* C8: a handler error does not unwind the dispatch loop, and a dispatch
\* that comes after one still calls the handler of every subscription the
\* message matches, once, with its arguments.
C8_HandlerErrorContained ==
    /\ loopAlive
    /\ (pc.op = "dispatched" /\ disp.priorErr /\ disp.msg # "null") =>
           \A h \in Matching(disp.msg) :
               shells[h].st = "live" =>
                   Cardinality({i \in 1 .. Len(disp.calls) :
                                   disp.calls[i].a1 = LLight(h)}) = 1
                   /\ \E i \in 1 .. Len(disp.calls) :
                          disp.calls[i] = ExpectedCall(h, disp.msg)

\* after a handler error a later dispatch has called a handler that returned
C8_Witness ==
    /\ pc.op = "dispatched" /\ disp.priorErr /\ ~disp.raised
    /\ Len(disp.calls) = 1
    /\ shells[disp.calls[1].a1.n].st = "live"

\* C9: whenever the trampoline has returned the callback thread's stack is
\* empty.
C9_StackEmptyOnReturn == pc.op = "dispatched" => cbStack = <<>>

\* the trampoline has returned after a handler raised an error that is no
\* string
C9_Witness ==
    /\ pc.op = "dispatched"
    /\ disp.raised /\ disp.trace = <<"">> /\ Len(disp.calls) = 1

\* C10: a dispose whose native unregister fails still releases the handler,
\* user-data and connection references and frees the shell, and returns to
\* its caller what a dispose whose unregister succeeds returns.
C10_UnregFailureStillTearsDown ==
    (ret.op = "dispose" /\ ret.rc # "ok") =>
        /\ shells[ret.match].mem = "freed"
        /\ shells[ret.match].held = {}
        /\ HeldRefsExact
        /\ [ret EXCEPT !.rc = "ok"] = [NoRet EXCEPT !.op = "dispose", !.match = ret.match,
                                                     !.rc = "ok"]

\* a dispose has returned after the native client reported a failure
C10_Witness == ret.op = "dispose" /\ ret.rc = "failKept"

(***************************************************************************)
(* Properties of the reference list                                        *)
(***************************************************************************)
\* C4: after the bulk clear the list is empty: nothing is reached from its
\* head.
C4_ClearEmptiesArena == ares.op = "free" => head = NULL

\* the indices of the log's events of kind e for block n
EventsOf(log, e, n) == {j \in 1 .. Len(log) : log[j].e = e /\ log[j].node = n}

\* C5: a bulk clear with a finalizer calls the finalizer once for every entry
\* the list held, with the entry's userdata (NULL when the entry's value is
\* no userdata), before it releases the entry's reference, and releases
\* every entry's reference once.
C5_FinalizeThenRelease ==
    (ares.op = "free" /\ ares.result = 1) =>
        /\ \A i \in 1 .. Len(ares.before) :
               LET b == ares.before[i]
                   fin == EventsOf(ares.log, "final", b.node)
                   rel == EventsOf(ares.log, "unref", b.node)
               IN  /\ Cardinality(fin) = 1
                   /\ Cardinality(rel) = 1
                   /\ \A j \in fin : ares.log[j].arg = lua_touserdata(b.val)
                   /\ \A j \in fin : \A k \in rel : j < k
                   /\ \A k \in rel : ares.log[k].ref = b.ref
                   /\ b.ref \notin DOMAIN registry
        /\ Len(ares.log) = 2 * Len(ares.before)

\* a list of two entries or more, one a userdata and one not, was cleared
\* with a finalizer
C5_Witness ==
    /\ ares.op = "free" /\ ares.result = 1
    /\ Len(ares.before) >= 2
    /\ \E i \in 1 .. Len(ares.before) : lua_isuserdata(ares.before[i].val)
    /\ \E i \in 1 .. Len(ares.before) : ~lua_isuserdata(ares.before[i].val)


(***************************************************************************)
(* The rule builder on its own: calls of l2dbus_newMatch on a connection   *)
(* with no match rule registered, over criteria tables that vary one key   *)
(* at a time.                                                              *)
(***************************************************************************)
\* longest filterArgs array enumerated element by element
MaxArgs == 2

\* the number of argN filters l2dbus_newMatch reads at most (line 458)
FilterLimit == DBUS_MAXIMUM_MATCH_RULE_ARG_NUMBER + 1

\* an element of the filterArgs array that is no table
NonTableItem == [t |-> "str", type |-> LNil, index |-> LNil, value |-> LNil]

\* elements l2dbus_newMatch accepts
GoodItems ==
    { ArgItem(LNil, LNum(0), LStr("on")),
      ArgItem(LStr("string"), LNum(1), LStr("x")),
      ArgItem(LStr("path"), LNum(63), LStr("/a")),
      ArgItem(LNil, LStr("5"), LNum(7)) }

\* elements with a defect, or with more than one, and elements at the edges
OddItems ==
    { NonTableItem,
      ArgItem(LStr("bogus"), LNum(0), LStr("on")),
      ArgItem(LBool(TRUE), LNum(0), LStr("on")),
      ArgItem(LNil, LNil, LStr("on")),
      ArgItem(LNil, LStr("x"), LStr("on")),
      ArgItem(LNil, LNum(64), LStr("on")),
      ArgItem(LNil, LNum(-1), LStr("on")),
      ArgItem(LNil, LFrac(63), LStr("on")),
      ArgItem(LNil, LNum(0), LNil),
      ArgItem(LNil, LNum(0), LBool(TRUE)),
      ArgItem(LNil, LNum(0), LStr("")),
      ArgItem(LStr("bogus"), LNil, LNil),
      ArgItem(LNil, LNum(64), LNil) }

ArgItems == GoodItems \cup OddItems

\* the filterArgs arrays of at most MaxArgs elements
ShortArgs == UNION {[1 .. n -> ArgItems] : n \in 0 .. MaxArgs}

\* an array of n elements: valid ones up to the element at position bad (if
\* any), which is no table
LongArgs(n, bad) ==
    [i \in 1 .. n |-> IF i = bad THEN NonTableItem
                      ELSE ArgItem(IF i % 2 = 0 THEN LStr("path") ELSE LNil,
                                   LNum((i - 1) % FilterLimit), LStr("on"))]

\* arrays around the limit of FilterLimit elements
LongLists ==
    { LongArgs(FilterLimit, 0), LongArgs(FilterLimit + 1, 0),
      LongArgs(FilterLimit + 1, FilterLimit + 1),
      LongArgs(FilterLimit + 2, FilterLimit + 1),
      LongArgs(FilterLimit, FilterLimit) }

\* a filterArgs value that is no table
NonTableArgs == {[t |-> k, items |-> <<>>] : k \in {"str", "num", "bool"}}

StrKeys == {"member", "interface", "objInterface", "sender", "path", "arg0Namespace"}
StrInputs == {LStr("a.b"), LStr(""), LNum(7), LBool(TRUE)}
MsgTypeInputs ==
    {LNum(k) : k \in (-1) .. 5} \cup
    {LNil, LFrac(0), LFrac(3), LFrac(4), LStr("4"), LStr("signal"), LBool(TRUE)}
BoolInputs == {LNil, LBool(TRUE), LBool(FALSE), LNum(1), LNum(0), LStr("true")}

BuildCriteria ==
    {[EmptyCriteria EXCEPT !.filterArgs = ArgTable(a)] : a \in ShortArgs \cup LongLists}
    \cup {[EmptyCriteria EXCEPT !.filterArgs = a] : a \in NonTableArgs}
    \cup {[EmptyCriteria EXCEPT ![k] = v] : k \in StrKeys, v \in StrInputs}
    \cup {[EmptyCriteria EXCEPT !.msgType = v] : v \in MsgTypeInputs}
    \cup {[EmptyCriteria EXCEPT !.treatPathAsNamespace = v, !.eavesdrop = w] :
             v \in BoolInputs, w \in BoolInputs}

\* a criteria with every string key set and one argN filter
CritFull ==
    [EmptyCriteria EXCEPT !.member = LStr("Changed"), !.interface = LStr("a.b"),
                          !.sender = LStr("a.b"), !.path = LStr("/a"),
                          !.arg0Namespace = LStr("a"),
                          !.filterArgs = ArgTable(<<ArgItem(LNil, LNum(0), LStr("on"))>>)]

\* the allocations of l2dbus_newMatch, by what they are for
OomSites ==
    {"member", "interface", "sender", "path", "arg0Namespace", "filterArgs", "value",
     "match"}

BuildRequests ==
    {Request(c, LFunc("h1"), LStr("u1"), {}, "holdsStr") : c \in BuildCriteria}
    \cup {Request(CritFull, LFunc("h1"), LStr("u1"), oom, "holdsStr") :
              oom \in {{}} \cup {{a} : a \in OomSites}}

\* a call of l2dbus_newMatch on a connection with no match rule registered
BuildCall(req) ==
    /\ native = {}
    /\ NewMatchParse(req)

NextBuild ==
    \/ \E req \in BuildRequests : BuildCall(req)
    \/ \E regOk \in BOOLEAN : NewMatchRegister(regOk)
    \/ NewMatchRef
    \/ NewMatchReturn
    \/ Resume

SpecBuild == Init /\ [][NextBuild]_vars

\* l2dbus_newMatch has parsed the criteria, has registered the rule or has
\* failed, and is about to return
BuildDone == pc.op = "newMatch" /\ pc.step = "L601"

\* the rule the native client was handed by the call in progress
Registered == {r.rule : r \in {x \in native : x.ctx = pc.m}}


(***************************************************************************)
(* Properties of the rule builder                                          *)
(***************************************************************************)
\* the smaller of two numbers
Min(a, b) == IF a < b THEN a ELSE b

\* the elements of the criteria's filterArgs array that the builder is to
\* look at: the first FilterLimit ones
Considered(c) ==
    IF c.filterArgs.t = "table"
    THEN 1 .. Min(Len(c.filterArgs.items), FilterLimit)
    ELSE {}

\* the index of an element, as a number, lies in [0, 63]
IndexWithin(v) ==
    IF v.t = "num"
    THEN IF v.s = "frac" THEN 0 <= v.n /\ v.n < DBUS_MAXIMUM_MATCH_RULE_ARG_NUMBER
         ELSE 0 <= v.n /\ v.n <= DBUS_MAXIMUM_MATCH_RULE_ARG_NUMBER
    ELSE \/ \E k \in 0 .. DBUS_MAXIMUM_MATCH_RULE_ARG_NUMBER : NumToStr(k) = v.s
         \/ \E k \in 0 .. (DBUS_MAXIMUM_MATCH_RULE_ARG_NUMBER - 1) : FracToStr(k) = v.s

\* the index of an element, cut to an integer, lies in [0, 63]
IndexCutWithin(v) == lua_tointeger(v) \in 0 .. DBUS_MAXIMUM_MATCH_RULE_ARG_NUMBER

\* the defects of one element of the filterArgs array; within(v) says whether
\* a numeric index is in range.  Numeric is what Lua takes for a number (a
\* number or a string that spells one), a string value what Lua takes for a
\* string (a string or a number).
DefectsOf(item, within(_)) ==
    IF item.t # "table" THEN {"table"}
    ELSE (IF item.type.t = "nil" \/ item.type \in {LStr("string"), LStr("path")}
          THEN {} ELSE {"type"})
         \cup (IF lua_isnumber(item.index) THEN {} ELSE {"index"})
         \cup (IF lua_isnumber(item.index) /\ ~within(item.index) THEN {"range"} ELSE {})
         \cup (IF item.value.t \in {"str", "num"} THEN {} ELSE {"value"})

\* the reason string of each defect
DefectReason(d) ==
    CASE d = "table" -> "argN table expected"
      [] d = "type" -> "unknown argument type specified (!= 'path' or 'string')"
      [] d = "index" -> "arg filter index not specified"
      [] d = "range" -> "arg filter index out of range"
      [] d = "value" -> "arg filter missing a value"

\* the call in progress has failed at the first defective element that is
\* considered, with the reason of a defect of that element, and has neither
\* allocated a match nor called the native client
FailsAtFirstDefect(within(_)) ==
    LET items == pc.c.filterArgs.items
        bad == {i \in Considered(pc.c) : DefectsOf(items[i], within) # {}}
    IN  bad # {} =>
            LET first == CHOOSE i \in bad : \A j \in bad : i <= j IN
            /\ pc.failed
            /\ pc.reason \in {DefectReason(d) : d \in DefectsOf(items[first], within)}
            /\ pc.m = NULL
            /\ native = {}

\* C11 (as stated): a filterArgs array with a defective element among its
\* first 64 (no table, no numeric index, index outside [0,63], unknown type
\* tag, no string value) makes the build fail at the first defect with that
\* defect's reason, the native registration never attempted.
C11_FirstDefectFails == BuildDone => FailsAtFirstDefect(IndexWithin)

\* C11 (amended): the same, the index being in range when its integer part
\* (lua_tointeger) is in [0,63]: an index such as 63.5 is accepted as 63.
C11_FirstDefectFails_Cut == BuildDone => FailsAtFirstDefect(IndexCutWithin)

\* the build has failed on the second element for its missing value, after
\* a valid first element
C11_Witness ==
    /\ BuildDone /\ pc.failed
    /\ pc.reason = "arg filter missing a value"
    /\ Len(pc.c.filterArgs.items) = 2
    /\ DefectsOf(pc.c.filterArgs.items[1], IndexCutWithin) = {}
    /\ DefectsOf(pc.c.filterArgs.items[2], IndexCutWithin) = {"value"}


\* C12: a filterArgs key that is present but holds no table (a string, a
\* number, a boolean) makes the build fail, with no match allocated and no
\* rule registered.
C12_NonSequenceFails ==
    (BuildDone /\ pc.c.filterArgs.t \notin {"nil", "table"}) =>
        pc.failed /\ pc.m = NULL /\ native = {}

\* two of the considered elements carry the same index
DuplicateIndex(c) ==
    \E i, j \in Considered(c) :
        /\ i < j
        /\ c.filterArgs.items[i].t = "table" /\ c.filterArgs.items[j].t = "table"
        /\ lua_isnumber(c.filterArgs.items[i].index)
        /\ lua_isnumber(c.filterArgs.items[j].index)
        /\ lua_tointeger(c.filterArgs.items[i].index) =
               lua_tointeger(c.filterArgs.items[j].index)

\* C13: a criteria in which two argument filters carry the same index makes
\* the build fail: no rule with both entries is built or registered.
C13_DuplicateIndexFails ==
    (BuildDone /\ DuplicateIndex(pc.c)) => pc.failed /\ pc.m = NULL /\ native = {}

\* the filter the rule is to hold for a valid element of the array
FilterOf(item) ==
    [argType |-> IF item.type = LStr("path") THEN "PATH" ELSE "ARG",
     argN |-> lua_tointeger(item.index),
     value |-> <<lua_tostring(item.value)>>]

\* the array the rule is to hold for the criteria: the filters of the
\* considered elements in their order, then the sentinel
FiltersFor(c) ==
    [i \in 1 .. (Cardinality(Considered(c)) + 1) |->
        IF i \in Considered(c) THEN FilterOf(c.filterArgs.items[i])
        ELSE [argType |-> "INVALID", argN |-> 0, value |-> <<>>]]

\* the considered elements of the criteria's array are all valid, and there
\* is one at least
ValidFilters(c) ==
    /\ Considered(c) # {}
    /\ \A i \in Considered(c) : DefectsOf(c.filterArgs.items[i], IndexCutWithin) = {}

RuleStrings(rule) ==
    {rule.member, rule.objInterface, rule.sender, rule.path, rule.arg0Namespace}

\* the filters of a rule, the sentinel left out
RuleFilters(rule) ==
    {rule.filterArgs[i] : i \in {k \in 1 .. Len(rule.filterArgs) :
                                     rule.filterArgs[k].argType # "INVALID"}}

\* C15: in a rule of a build that succeeded every string field is unset or a
\* non-empty string, and every argument filter's value is a non-empty
\* string.
C15_NoEmptyStrings ==
    (BuildDone /\ pc.m # NULL) =>
        /\ \A f \in RuleStrings(pc.rule) : f # <<"">>
        /\ \A a \in RuleFilters(pc.rule) : a.value # <<>> /\ a.value # <<"">>


\* the class a number stands for
ClassOfNumber(k) ==
    CASE k = DBUS_MESSAGE_TYPE_METHOD_CALL -> "METHOD_CALL"
      [] k = DBUS_MESSAGE_TYPE_METHOD_RETURN -> "METHOD_RETURN"
      [] k = DBUS_MESSAGE_TYPE_ERROR -> "ERROR"
      [] k = DBUS_MESSAGE_TYPE_SIGNAL -> "SIGNAL"
      [] OTHER -> "ANY"

\* the msgType input is one of the four class numbers (or a string that
\* spells one)
IsClassNumber(v) ==
    \/ v.t = "num" /\ v.s # "frac" /\ ClassOfNumber(v.n) # "ANY"
    \/ v.t = "str" /\ \E k \in NumRange : NumToStr(k) = v.s /\ ClassOfNumber(k) # "ANY"

\* the build in progress has not failed, or has failed at the registration
OnlyRegistrationFails == pc.failed => pc.reason = "failed to register match handler"

\* C16 (as stated): the four class numbers map to method-call,
\* method-return, error and signal, every other msgType input (absent, not
\* numeric, any other number) maps to "any", and the key never makes the
\* build fail.
C16_MsgTypeClosed ==
    (BuildDone /\ pc.c.filterArgs = NoArgs) =>
        /\ pc.rule.msgType = IF IsClassNumber(pc.c.msgType)
                             THEN ClassOfNumber(lua_tointeger(pc.c.msgType))
                             ELSE "ANY"
        /\ OnlyRegistrationFails

\* C16 (amended): a numeric msgType input maps to the class of its integer
\* part (lua_tointeger), every input that is not numeric or whose integer
\* part is none of the four class numbers maps to "any", and the key never
\* makes the build fail.
C16_MsgTypeClosed_Cut ==
    (BuildDone /\ pc.c.filterArgs = NoArgs) =>
        /\ pc.rule.msgType = IF lua_isnumber(pc.c.msgType)
                             THEN ClassOfNumber(lua_tointeger(pc.c.msgType))
                             ELSE "ANY"
        /\ OnlyRegistrationFails

\* a rule was registered for msgType = 3.5, with the class error
C16_Witness ==
    /\ BuildDone /\ ~pc.failed
    /\ pc.c.msgType = LFrac(DBUS_MESSAGE_TYPE_ERROR)
    /\ Registered = {pc.rule}
    /\ pc.rule.msgType = "ERROR"


\* the flag a rule is to carry for a boolean key of the criteria
FlagFor(v) == v.t = "bool" /\ v.b

\* the eavesdrop and treatPathAsNamespace keys: a boolean is carried into the
\* rule, anything else is taken for false
FlagsCarried ==
    /\ pc.rule.eavesdrop = FlagFor(pc.c.eavesdrop)
    /\ pc.rule.treatPathAsNamespace = FlagFor(pc.c.treatPathAsNamespace)

\* C17 (as stated): for the namespace, eavesdrop and path-as-namespace keys
\* an input that is no boolean is taken for false (the wildcard) and a
\* boolean is carried into the rule; none of them makes the build fail.
C17_BooleanKeys ==
    (BuildDone /\ pc.c.filterArgs = NoArgs) =>
        /\ FlagsCarried
        /\ (pc.rule.arg0Namespace # <<>>) = FlagFor(pc.c.arg0Namespace)
        /\ OnlyRegistrationFails

\* C17 (amended): so for the eavesdrop and path-as-namespace keys; the
\* namespace key (arg0Namespace) is a string key: a string (or number) is
\* copied into the rule, anything else, a boolean too, leaves the namespace
\* unset; none of the three makes the build fail.
C17_BooleanKeys_StringNamespace ==
    (BuildDone /\ pc.c.filterArgs = NoArgs) =>
        /\ FlagsCarried
        /\ pc.rule.arg0Namespace =
               IF pc.c.arg0Namespace.t \in {"str", "num"}
               THEN <<lua_tostring(pc.c.arg0Namespace)>> ELSE <<>>
        /\ OnlyRegistrationFails

\* a rule was registered for {eavesdrop = true, treatPathAsNamespace = 1}
C17_Witness ==
    /\ BuildDone /\ ~pc.failed
    /\ pc.c.eavesdrop = LBool(TRUE) /\ pc.c.treatPathAsNamespace = LNum(1)
    /\ Registered = {pc.rule}
    /\ pc.rule.eavesdrop /\ ~pc.rule.treatPathAsNamespace


\* C18: the documented criteria key objInterface selects the interface
\* filter: a string under it is the rule's interface, and without it the
\* rule's interface is the wildcard.
C18_ObjInterfaceKey ==
    (BuildDone /\ pc.c.filterArgs = NoArgs) =>
        pc.rule.objInterface =
            IF pc.c.objInterface.t = "str" THEN <<pc.c.objInterface.s>> ELSE <<>>

\* C19: a call of l2dbus_newMatch that has failed leaves the reason of its
\* failure in the errMsg receiver, whatever the receiver held before.
C19_ReasonDelivered ==
    (ret.op = "newMatch" /\ ret.failed) =>
        ret.reason # "" /\ ret.errMsg = <<ret.reason>>

\* C20: a call of l2dbus_newMatch with a NULL errMsg returns to its caller,
\* with the match or with NULL as a call with a receiver does.
C20_NullReceiverCompletes ==
    [][(pc.op = "newMatch" /\ pc.step = "L601" /\ pc.errIn = "nullptr") =>
          /\ pc'.op = "returned"
          /\ ret'.op = "newMatch"
          /\ ret'.match = (IF pc.failed THEN NULL ELSE pc.m)]_vars


\* the reasons of l2dbus_newMatch for an allocation that failed
ResourceReasons ==
    {"failed to allocate memory for argN filter elements",
     "failed to allocate memory for match object"}

\* C21: an allocation failure at any step of l2dbus_newMatch (the copy of a
\* string key or of a filter value, the filter array, the match) makes the
\* call fail with a resource reason; no rule is registered that lacks the
\* field that could not be copied.
C21_AllocationFailureFails ==
    (BuildDone /\ pc.c = CritFull /\ pc.oom # {}) =>
        /\ pc.failed
        /\ pc.reason \in ResourceReasons
        /\ Registered = {}

\* the blocks allocated for a rule: whatever its pointers point to
Allocated(rule) ==
    {<<f, 0>> : f \in {g \in {"member", "objInterface", "sender", "path",
                              "arg0Namespace", "filterArgs"} : rule[g] # <<>>}}
    \cup {<<"value", i>> : i \in {k \in 1 .. Len(rule.filterArgs) :
                                     rule.filterArgs[k].value # <<>>}}

\* C22: on every path through l2dbus_newMatch that returns, every string and
\* the filter array allocated for the rule is freed once before the return:
\* nothing is leaked, nothing is freed twice.
C22_RuleFreedOnce ==
    ret.op = "newMatch" =>
        /\ {ret.freed[i] : i \in 1 .. Len(ret.freed)} = Allocated(ret.rule)
        /\ Cardinality(Allocated(ret.rule)) = Len(ret.freed)

\* the call has failed on the second element of the array and has freed the
\* value of the first and the array
C22_Witness ==
    /\ ret.op = "newMatch" /\ ret.failed
    /\ ret.reason = "arg filter index out of range"
    /\ ret.freed = <<<<"value", 1>>, <<"filterArgs", 0>>>>


(***************************************************************************)
(* Claims C23-C30: the reference list and its iterator                     *)
(***************************************************************************)
\* the events of kind e in a log, in order
EventsIn(log, e) == SelectSeq(log, LAMBDA x : x.e = e)
\* the blocks a traversal erased
ErasedIn(log) == {log[i].node : i \in {k \in 1 .. Len(log) : log[k].e = "unref"}}

\* a traversal that has begun never stands on more items than the list held,
\* and one that is over stood on every item once in list order, left in the
\* list the items it did not erase, and released the reference of each item
\* it erased once
TraversalExact ==
    ares.op = "traverse" =>
        LET visits == EventsIn(ares.log, "visit")
            erased == ErasedIn(ares.log)
        IN  /\ Len(visits) <= Len(ares.before)
            /\ pc.op = "returned" =>
                   /\ [i \in 1 .. Len(visits) |-> visits[i].node] =
                          [i \in 1 .. Len(ares.before) |-> ares.before[i].node]
                   /\ Entries = SelectSeq(ares.before, LAMBDA b : b.node \notin erased)
                   /\ \A i \in 1 .. Len(ares.before) :
                          LET b == ares.before[i]
                              rel == EventsOf(ares.log, "unref", b.node)
                          IN  b.node \in erased =>
                                  /\ Cardinality(rel) = 1
                                  /\ \A k \in rel : ares.log[k].ref = b.ref
                                  /\ b.ref \notin DOMAIN registry

\* C23: from any reference list and any choice of items to erase, a traversal
\* begins, stands on every item exactly once and ends; afterwards the list
\* holds exactly the items that were not erased, and the reference of every
\* erased item has been released exactly once
C23_TraversalVisitsAll == pc.op # "crashed" /\ TraversalExact

\* a traversal of a list of three items that erased some and kept some
TraversalMixed ==
    /\ ares.op = "traverse" /\ pc.op = "returned"
    /\ Len(ares.before) = 3
    /\ Cardinality(ErasedIn(ares.log)) = 2


\* the references the entries of a list hold
RefsOf(entries) == {entries[i].ref : i \in 1 .. Len(entries)}

\* C24: l2dbus_refListRef returns LUA_NOREF only when the allocation fails,
\* and then no reference is taken and the list is as it was; otherwise the
\* value is referenced, the list has one new entry that holds the returned
\* reference and the value, and the entries it had are unchanged
C24_RetainExact ==
    ares.op = "ref" =>
        /\ ares.result = LUA_NOREF <=> ~ares.arg.ok
        /\ ares.result = LUA_NOREF =>
               /\ Entries = ares.before
               /\ DOMAIN registry = RefsOf(ares.before)
        /\ ares.result # LUA_NOREF =>
               /\ ares.result \notin RefsOf(ares.before)
               /\ Len(Entries) = Len(ares.before) + 1
               /\ Entries[1].ref = ares.result
               /\ Entries[1].val = ares.arg.v
               /\ SubSeq(Entries, 2, Len(Entries)) = ares.before
               /\ DOMAIN registry = RefsOf(ares.before) \cup {ares.result}

\* a value retained in a list that holds two entries
C24_Witness ==
    /\ ares.op = "ref" /\ ares.arg.ok
    /\ Len(ares.before) = 2
    /\ Len(Entries) = 3 /\ Entries[1].ref = ares.result

\* C25: l2dbus_refListUnref with a reference the list does not hold changes
\* nothing; with a reference it holds, exactly that entry is removed and its
\* reference released, and the other entries are unchanged
C25_ReleaseExact ==
    ares.op = "unref" =>
        IF ares.arg.ref \notin RefsOf(ares.before)
        THEN /\ Entries = ares.before
             /\ DOMAIN registry = RefsOf(ares.before)
             /\ ares.log = <<>>
        ELSE /\ Entries = SelectSeq(ares.before, LAMBDA b : b.ref # ares.arg.ref)
             /\ Len(Entries) = Len(ares.before) - 1
             /\ DOMAIN registry = RefsOf(ares.before) \ {ares.arg.ref}
             /\ Len(ares.log) = 1 /\ ares.log[1].ref = ares.arg.ref

\* the middle entry of three released
C25_Witness ==
    /\ ares.op = "unref"
    /\ Len(ares.before) = 3 /\ ares.before[2].ref = ares.arg.ref
    /\ Len(Entries) = 2

\* C26: l2dbus_refListUnref returns the same boolean, false, whether the
\* reference was found and released or not found
C26_ReleaseStatusConstant == ares.op = "unref" => ares.result = 0

\* a release that found its reference, and returned false
C26_Witness ==
    /\ ares.op = "unref" /\ ares.result = 0
    /\ ares.arg.ref \in RefsOf(ares.before)
    /\ Len(ares.log) = 1

\* the positions of the entries whose value is the userdata item
HitsOf(entries, item) ==
    {i \in 1 .. Len(entries) :
        lua_isuserdata(entries[i].val) /\ lua_touserdata(entries[i].val) = item}
First(S) == CHOOSE i \in S : \A j \in S : i <= j

\* C27: on a list none of whose blocks has been freed, l2dbus_refListFindItem
\* returns true exactly when some entry's value is a userdata identical to
\* item; then the iterator is on the first such entry with next the entry
\* after it; otherwise the iterator is as it was; the entries of the list and
\* the Lua stack are as they were
C27_FindExact ==
    (ares.op = "find" /\ ListIntact) =>
        LET hits == HitsOf(ares.before, ares.arg.item) IN
        /\ ares.result = 1 <=> hits # {}
        /\ hits # {} =>
               /\ iter.cur = ares.before[First(hits)].node
               /\ iter.next = IF First(hits) < Len(ares.before)
                              THEN ares.before[First(hits) + 1].node ELSE NULL
        /\ hits = {} => iter = ares.iter
        /\ Entries = ares.before
        /\ lstack = ares.stack

\* a userdata found that two entries hold, behind an entry that holds another
C27_Witness ==
    /\ ares.op = "find" /\ ListIntact /\ ares.result = 1
    /\ HitsOf(ares.before, ares.arg.item) = {2, 3}
    /\ iter.cur = ares.before[2].node

\* C28: every call of l2dbus_refListIterRefItem leaves exactly one more value
\* on the Lua stack: the userdata when it returns its pointer, nil when it
\* returns NULL, the iterator at the end included
C28_RefItemPushesOne ==
    ares.op = "iterRefItem" =>
        /\ Len(lstack) = Len(ares.stack) + 1
        /\ lstack[Len(lstack)] = IF ares.result # NULL THEN LUdata(ares.result) ELSE LNil

\* C30: l2dbus_refListIterInit on an empty list returns, with the iterator at
\* the end
C30_EmptyInitAtEnd ==
    [][(pc.op = "idle" /\ head = NULL /\ (pc'.op = "crashed" \/ ares'.op = "iterInit")) =>
           (pc'.op = "returned" /\ iter' = [cur |-> NULL, next |-> NULL])]_vars


\* the match block the native client hands to the trampoline for handle h
ContextOf(h) == (CHOOSE r \in native : r.hnd = h).ctx

\* C29: every call of the trampoline finds a match whose handler and
\* user-data references have been stored and not yet released: after a
\* dispatch that ran to its end, the context of every registration the
\* message matched is an allocated match that holds both references
C29_TrampolineSeesStoredRefs ==
    (pc.op = "dispatched" /\ disp.msg # "null" /\ loopAlive) =>
        \A h \in Matching(disp.msg) :
            /\ shells[ContextOf(h)].mem = "alloc"
            /\ shells[ContextOf(h)].st = "live"
            /\ FullHeld(shells[ContextOf(h)]) \ {"conn"} \subseteq shells[ContextOf(h)].held

\* no message is dispatched between the native registration and the storing
\* of the references: while l2dbus_newMatch runs the trampoline is not called
NoDispatchInsideNewMatch == [][pc.op = "newMatch" => disp' = disp]_vars


(***************************************************************************)
(* Claims C31-C32: the Int64 type                                          *)
(***************************************************************************)
\* an operand that converts to int64 whatever went before: a number, an
\* Int64 or a Uint64; and the int64 it converts to
Converts(v) == v.t \in {"num", "int64", "uint64"}
OperandValue(v) == IF v.t = "uint64" THEN Wrap(v.n) ELSE v.n

\* a binary operator whose operation C defines returns the Int64 of the
\* mathematical result
DefinedOpsExact ==
    (i64.op \in BinOps /\ Converts(i64.a) /\ Converts(i64.b)
        /\ Defined(i64.op, OperandValue(i64.a), OperandValue(i64.b))) =>
        /\ pc.op = "returned" /\ i64.raised = ""
        /\ i64.value = Exact(i64.op, OperandValue(i64.a), OperandValue(i64.b))

\* C31: add, subtract, multiply, divide and modulus return an Int64 for every
\* pair of operands that convert to int64, a zero right-hand operand of divide
\* and modulus included; a result outside the signed range is wrapped modulo
\* 2^IntBits; no pair of operands ends the process
C31_BinaryOpsTotal ==
    (i64.op \in BinOps /\ Converts(i64.a) /\ Converts(i64.b)) =>
        /\ pc.op = "returned" /\ i64.raised = ""
        /\ i64.value \in Int64Range
        /\ (i64.op \in {"add", "sub", "mul"} \/ OperandValue(i64.b) # 0) =>
               i64.value = Wrap(Exact(i64.op, OperandValue(i64.a), OperandValue(i64.b)))

\* the number the digits cs spell in a base, however large, and whether there
\* is any digit
RECURSIVE Spelled(_, _, _)
Spelled(cs, base, st) ==
    IF cs = <<>> \/ DigitOf(Head(cs)) >= base THEN st
    ELSE Spelled(Tail(cs), base,
                 [val |-> st.val * base + DigitOf(Head(cs)), any |-> TRUE])
SpelledBy(sub) == Spelled(sub.digits, sub.base, [val |-> 0, any |-> FALSE])
\* the error the conversion of a string in a valid base is to raise: none
\* when the string spells a number of the signed range
ErrorFor(sub) ==
    IF ~SpelledBy(sub).any THEN "unable to convert number"
    ELSE IF (IF sub.neg THEN -SpelledBy(sub).val ELSE SpelledBy(sub).val) \notin Int64Range
    THEN "number out of range"
    ELSE ""

\* C32: Int64.new of a string raises "number out of range" when the string
\* spells a number outside the signed range and "unable to convert number"
\* when it spells none, and raises nothing otherwise: the error depends on
\* the string and the base alone, not on errno as an earlier call left it
C32_StringErrorsExact ==
    (i64.op = "new" /\ i64.a.t = "str" /\ i64.b.t \in {"nil", "num"}
        /\ BaseValid(BaseOf(i64.b))) =>
        i64.raised = ErrorFor(Subject(i64.a.chars, BaseOf(i64.b)))

=============================================================================
